---- MODULE Spec2Model ----
(***************************************************************************)
(* Causal Event Graph Engine (src/causation_explorer.py): event store,     *)
(* indices, metric history, causation detector and causal graph, with the  *)
(* exclusive graph_lock and the graph snapshot of src/causation_web_ui.py. *)
(*                                                                         *)
(* Numbers are kept in hundredths: the boundary 0.3 is 30, the strength    *)
(* 0.9 is 90, one second is 100.  A Python value is a record with a kind   *)
(* ("num" or "str"); a Python bool is an int and is covered by 0 and 100.  *)
(***************************************************************************)
EXTENDS Integers, Sequences, FiniteSets, TLC

VARIABLES
    events,               \* self.events: event_id -> Event
    events_keys,          \* key order of the dict self.events
    events_by_component,  \* self.events_by_component: component -> list of ids
    events_by_type,       \* self.events_by_type: event_type -> list of ids
    metric_history,       \* self.metric_history: metric -> deque of samples
    causation_graph,      \* self.causation_graph: <<from, to>> -> edge attributes
    edge_keys,            \* the edges of the DiGraph in the order add_edge made them
    graph_lock,           \* self.graph_lock: 0 when free, else the holder
    calls,                \* number of add_event calls made so far
    passed,               \* every event ever passed to add_event
    last,                 \* outcome of the latest add_event call
    stage, pairPrev, pairNew,   \* the two-event run: position and its inputs
    pc, arg, snapshot, completed,  \* concurrent callers, the snapshot taken, inserts that returned
    last_loaded_frame,    \* self._last_loaded_frame
    last_explorer_phase,  \* self._last_explorer_phase
    last_vp,              \* self._last_vp
    clock,                \* int(time.time() * 1000000) as the next Event() reads it
    tick,                 \* microseconds the clock gains between two Event() calls in a row
    load,                 \* outcome of the latest adapter run
    replay,               \* outcome of the latest ledger or log replay
    stats,                \* get_causation_stats: position and the values read so far
    runs                  \* adapter runs side by side: the document and each caller's position

vars == <<events, events_keys, events_by_component, events_by_type,
          metric_history, causation_graph, edge_keys, graph_lock, calls, passed, last,
          stage, pairPrev, pairNew, pc, arg, snapshot, completed,
          last_loaded_frame, last_explorer_phase, last_vp, clock, tick, load,
          replay, stats, runs>>

AdapterVars == <<last_loaded_frame, last_explorer_phase, last_vp, clock, tick, load,
                 replay>>

-----------------------------------------------------------------------------
(* Bounds *)

MaxCalls == 3
NumIds == 3
MaxTicks == 2
ConcTicks == 1
PairTicks == 4
NumThreads == 3
MaxDepth == 3
MaxLoads == 2
MaxFrame == 1
MaxCells == 3
MaxReplays == 1
HistorySlack == 1
MaxAppends == 3

(* Program constants, in hundredths *)

TimeStep == 50
DirectWindow == 100
SignificantChangePct == 10
ThresholdStrength == 90
CorrelationStrength == 70
DirectStrength == 80
RecentWindow == 100
HistoryMaxLen == 1000
MaxStrongest == 10
MaxRetries == 5

-----------------------------------------------------------------------------
(* Python values and text *)

PyNum(n) == [kind |-> "num", num |-> n, str |-> ""]
PyStr(s) == [kind |-> "str", num |-> 0, str |-> s]
PyNone == [kind |-> "none", num |-> 0, str |-> ""]

Chars(s) ==
    CASE s = "" -> <<>>
      [] s = "collapse" -> <<"c","o","l","l","a","p","s","e">>
      [] s = "is_collapsed" -> <<"i","s","_","c","o","l","l","a","p","s","e","d">>
      [] s = "transition" -> <<"t","r","a","n","s","i","t","i","o","n">>
      [] s = "vp_classification" -> <<"v","p","_","c","l","a","s","s","i","f","i","c","a","t","i","o","n">>
      [] s = "convergence" -> <<"c","o","n","v","e","r","g","e","n","c","e">>
      [] s = "phase" -> <<"p","h","a","s","e">>
      [] s = "mathematical_capability" -> <<"m","a","t","h","e","m","a","t","i","c","a","l","_","c","a","p","a","b","i","l","i","t","y">>
      [] s = "state_change" -> <<"s","t","a","t","e","_","c","h","a","n","g","e">>
      [] s = "Network_Collapse" -> <<"N","e","t","w","o","r","k","_","C","o","l","l","a","p","s","e">>
      [] s = "phase_transition" -> <<"p","h","a","s","e","_","t","r","a","n","s","i","t","i","o","n">>
      [] s = "stable" -> <<"s","t","a","b","l","e">>
      [] s = "low" -> <<"l","o","w">>
      [] s = "below" -> <<"b","e","l","o","w">>
      [] s = "above" -> <<"a","b","o","v","e">>
      [] s = "genesis" -> <<"g","e","n","e","s","i","s">>
      [] s = "sovereign" -> <<"s","o","v","e","r","e","i","g","n">>
      [] s = "unknown" -> <<"u","n","k","n","o","w","n">>
      [] s = "VP0" -> <<"V","P","0">>
      [] s = "VP1" -> <<"V","P","1">>
      [] s = "VP2" -> <<"V","P","2">>
      [] s = "VP3" -> <<"V","P","3">>
      [] s = "violation_pressure" -> <<"v","i","o","l","a","t","i","o","n","_","p","r","e","s","s","u","r","e">>
      [] s = "threshold_crossed" -> <<"t","h","r","e","s","h","o","l","d","_","c","r","o","s","s","e","d">>
      [] s = "tape_cell" -> <<"t","a","p","e","_","c","e","l","l">>

\* str.lower() on one character
LowerChar(c) == CASE c = "N" -> "n" [] c = "C" -> "c" [] c = "V" -> "v" [] c = "P" -> "p"
                   [] OTHER -> c

Lower(cs) == [i \in 1..Len(cs) |-> LowerChar(cs[i])]

\* Python's `needle in haystack` on strings
IsSubstring(needle, hay) ==
    \E i \in 0..(Len(hay) - Len(needle)) :
        \A j \in 1..Len(needle) : hay[i + j] = needle[j]

Digit(d) == CASE d = 0 -> "0" [] d = 1 -> "1" [] d = 2 -> "2" [] d = 3 -> "3"
              [] d = 4 -> "4" [] d = 5 -> "5" [] d = 6 -> "6" [] d = 7 -> "7"
              [] d = 8 -> "8" [] d = 9 -> "9"

RECURSIVE Digits(_)
Digits(n) == IF n < 10 THEN <<Digit(n)>> ELSE Digits(n \div 10) \o <<Digit(n % 10)>>

\* str(v): a number prints as digits around a decimal point, a string as itself
StrOf(v) ==
    IF v.kind = "num"
    THEN Digits(v.num \div 100) \o <<".", Digit((v.num % 100) \div 10), Digit(v.num % 10)>>
    ELSE Chars(v.str)

\* code point order on the characters that are ever compared
Ord(c) == CASE c = "a" -> 97 [] c = "b" -> 98 [] c = "e" -> 101 [] c = "l" -> 108
            [] c = "o" -> 111 [] c = "s" -> 115 [] c = "t" -> 116 [] c = "v" -> 118
            [] c = "w" -> 119 [] OTHER -> 0

RECURSIVE SeqLess(_, _)
SeqLess(x, y) ==
    IF Len(y) = 0 THEN FALSE
    ELSE IF Len(x) = 0 THEN TRUE
    ELSE IF Ord(Head(x)) # Ord(Head(y)) THEN Ord(Head(x)) < Ord(Head(y))
    ELSE SeqLess(Tail(x), Tail(y))

\* a < b in Python 3: "T", "F", or "TypeError" for a number against a string
PyLess(a, b) ==
    IF a.kind = "num" /\ b.kind = "num" THEN (IF a.num < b.num THEN "T" ELSE "F")
    ELSE IF a.kind = "str" /\ b.kind = "str"
         THEN (IF SeqLess(Chars(a.str), Chars(b.str)) THEN "T" ELSE "F")
    ELSE "TypeError"

PyLessEq(a, b) ==
    IF a.kind = "num" /\ b.kind = "num" THEN (IF a.num <= b.num THEN "T" ELSE "F")
    ELSE IF a.kind = "str" /\ b.kind = "str"
         THEN (IF ~SeqLess(Chars(b.str), Chars(a.str)) THEN "T" ELSE "F")
    ELSE "TypeError"

\* a chained comparison: the second test counts only if the first holds
Chained(first, second) == IF first = "T" THEN second ELSE first

\* x < y <= z
ChainLtLe(x, y, z) == Chained(PyLess(x, y), PyLessEq(y, z))

\* x > y >= z
ChainGtGe(x, y, z) == Chained(PyLess(y, x), PyLessEq(z, y))

-----------------------------------------------------------------------------
(* Rule tables *)

\* self.thresholds, metric by metric and entry by entry in dict order
thresholds == <<
    [metric |-> "modularity",
     items |-> << [name |-> "collapse", config |-> PyNum(30)],
                  [name |-> "direction", config |-> PyStr("below")] >>],
    [metric |-> "organism_count",
     items |-> << [name |-> "collapse", config |-> PyNum(50000)],
                  [name |-> "direction", config |-> PyStr("above")] >>],
    [metric |-> "clustering_coefficient",
     items |-> << [name |-> "collapse", config |-> PyNum(50)],
                  [name |-> "direction", config |-> PyStr("above")] >>],
    [metric |-> "violation_pressure",
     items |-> << [name |-> "vp0", config |-> PyNum(25)],
                  [name |-> "vp1", config |-> PyNum(50)],
                  [name |-> "vp2", config |-> PyNum(75)],
                  [name |-> "vp3", config |-> PyNum(99)] >>],
    [metric |-> "vp_calculations",
     items |-> << [name |-> "transition", config |-> PyNum(5000)],
                  [name |-> "direction", config |-> PyStr("above")] >> ] >>

\* the dict `consequences` of _is_known_consequence
consequences(metric, name) ==
    CASE metric = "modularity" /\ name = "collapse" -> <<"is_collapsed", "collapse", "transition">>
      [] metric = "organism_count" /\ name = "collapse" -> <<"is_collapsed", "collapse", "transition">>
      [] metric = "violation_pressure" /\ name = "vp0" -> <<"vp_classification", "transition", "convergence">>
      [] metric = "vp_calculations" /\ name = "transition" -> <<"phase", "transition", "mathematical_capability">>
      [] OTHER -> <<>>

\* the dict `direct_causations` of _check_direct_causation
direct_causations(from_component, to_component) ==
    CASE from_component = "breath" /\ to_component = "reality_sim" -> "Breath cycle drives network update"
      [] from_component = "breath" /\ to_component = "djinn_kernel" -> "Breath cycle drives VP calculation"
      [] from_component = "reality_sim" /\ to_component = "djinn_kernel" -> "Network metrics feed into VP calculation"
      [] from_component = "explorer" /\ to_component = "reality_sim" -> "Explorer phase affects network behavior"
      [] OTHER -> ""

-----------------------------------------------------------------------------
(* Causation links *)

NoExplanation == [text |-> "", metric |-> "", name |-> "", value |-> PyNum(0), metrics |-> {}]

\* the value None where a CausationLink is expected
None == [from_event |-> 0, to_event |-> 0, causation_type |-> "none", strength |-> 0,
         explanation |-> NoExplanation, metrics_involved |-> {}]

CausationLink(from_event, to_event, causation_type, strength, explanation, metrics_involved) ==
    [from_event |-> from_event, to_event |-> to_event, causation_type |-> causation_type,
     strength |-> strength, explanation |-> explanation, metrics_involved |-> metrics_involved]

Abs(x) == IF x < 0 THEN -x ELSE x

\* _is_known_consequence: a keyword of (metric, threshold_name) occurs in the
\* lower-cased event type or in a lower-cased stringified data value
is_known_consequence(event, metric, threshold_name) ==
    LET kws == consequences(metric, threshold_name) IN
    \E k \in 1..Len(kws) :
        \/ IsSubstring(Chars(kws[k]), Lower(Chars(event.event_type)))
        \/ \E key \in DOMAIN event.data :
               IsSubstring(Chars(kws[k]), Lower(StrOf(event.data[key])))

\* `crossed` for one entry: no entry of the table is itself a dict, so the
\* entry is the boundary and the direction is the default 'above'
crossed_at(prev_value, threshold_config, new_value) ==
    LET direction == "above" IN
    IF direction = "above"
    THEN ChainLtLe(prev_value, threshold_config, new_value)
    ELSE ChainGtGe(prev_value, threshold_config, new_value)

ThresholdLink(prev_event, new_event, metric, threshold_name, threshold_value) ==
    CausationLink(prev_event.event_id, new_event.event_id, "threshold", ThresholdStrength,
        [text |-> "crossed", metric |-> metric, name |-> threshold_name,
         value |-> threshold_value, metrics |-> {}],
        {metric})

Traced(trace, metric, threshold_name, crossed) ==
    [tested |-> trace.tested \cup {<<metric, threshold_name>>},
     crossed |-> IF crossed = "T" THEN trace.crossed \cup {<<metric, threshold_name>>}
                 ELSE trace.crossed]

\* the inner loop of _check_threshold_causation over the entries of one
\* metric; trace records the tests made and those that found a crossing
RECURSIVE CheckThresholdItems(_, _, _, _, _, _)
ThresholdItem(prev_event, new_event, metric, items, j, trace, crossed) ==
    IF crossed = "TypeError"
    THEN [link |-> None, raised |-> TRUE, trace |-> trace]
    ELSE IF crossed = "T" /\ is_known_consequence(new_event, metric, items[j].name)
    THEN [link |-> ThresholdLink(prev_event, new_event, metric, items[j].name, items[j].config),
          raised |-> FALSE,
          trace |-> Traced(trace, metric, items[j].name, crossed)]
    ELSE CheckThresholdItems(prev_event, new_event, metric, items, j + 1,
                             Traced(trace, metric, items[j].name, crossed))

CheckThresholdItems(prev_event, new_event, metric, items, j, trace) ==
    IF j > Len(items)
    THEN [link |-> None, raised |-> FALSE, trace |-> trace]
    ELSE ThresholdItem(prev_event, new_event, metric, items, j, trace,
             crossed_at(prev_event.data[metric], items[j].config, new_event.data[metric]))

\* the outer loop of _check_threshold_causation over the configured metrics
RECURSIVE CheckThresholdMetrics(_, _, _, _)
ThresholdMetric(prev_event, new_event, i, r) ==
    IF r.raised \/ r.link # None THEN r
    ELSE CheckThresholdMetrics(prev_event, new_event, i + 1, r.trace)

CheckThresholdMetrics(prev_event, new_event, i, trace) ==
    IF i > Len(thresholds)
    THEN [link |-> None, raised |-> FALSE, trace |-> trace]
    ELSE IF thresholds[i].metric \notin DOMAIN prev_event.data
            \/ thresholds[i].metric \notin DOMAIN new_event.data
    THEN CheckThresholdMetrics(prev_event, new_event, i + 1, trace)
    ELSE ThresholdMetric(prev_event, new_event, i,
             CheckThresholdItems(prev_event, new_event, thresholds[i].metric,
                                 thresholds[i].items, 1, trace))

check_threshold_causation(prev_event, new_event) ==
    CheckThresholdMetrics(prev_event, new_event, 1, [tested |-> {}, crossed |-> {}])

\* the metrics _check_correlation_causation collects in significant_changes
significant_changes(prev_event, new_event) ==
    { m \in (DOMAIN prev_event.data) \cap (DOMAIN new_event.data) :
        /\ prev_event.data[m].kind = "num"
        /\ new_event.data[m].kind = "num"
        /\ prev_event.data[m].num # 0
        /\ Abs(new_event.data[m].num - prev_event.data[m].num) * 100
               > SignificantChangePct * Abs(prev_event.data[m].num) }

CorrelationLink(prev_event, new_event, sig) ==
    IF Cardinality(sig) >= 2
    THEN CausationLink(prev_event.event_id, new_event.event_id, "correlation",
             CorrelationStrength,
             [text |-> "Correlated changes in", metric |-> "", name |-> "",
              value |-> PyNum(0), metrics |-> sig],
             sig)
    ELSE None

check_correlation_causation(prev_event, new_event) ==
    CorrelationLink(prev_event, new_event, significant_changes(prev_event, new_event))

\* the same with the strength of a correlation link
direct_at_correlation_strength(prev_event, new_event, time_diff) ==
    IF direct_causations(prev_event.component, new_event.component) # ""
       /\ time_diff < DirectWindow
    THEN CausationLink(prev_event.event_id, new_event.event_id, "direct",
             CorrelationStrength,
             [text |-> direct_causations(prev_event.component, new_event.component),
              metric |-> "", name |-> "", value |-> PyNum(0), metrics |-> {}],
             (DOMAIN prev_event.data) \cup (DOMAIN new_event.data))
    ELSE None

check_direct_causation(prev_event, new_event, time_diff) ==
    IF direct_causations(prev_event.component, new_event.component) # ""
       /\ time_diff < DirectWindow
    THEN CausationLink(prev_event.event_id, new_event.event_id, "direct",
             DirectStrength,
             [text |-> direct_causations(prev_event.component, new_event.component),
              metric |-> "", name |-> "", value |-> PyNum(0), metrics |-> {}],
             (DOMAIN prev_event.data) \cup (DOMAIN new_event.data))
    ELSE None

\* the same with the two ends of the edge exchanged
add_edge_reversed(g, link) ==
    [p \in (DOMAIN g) \cup {<<link.to_event, link.from_event>>} |->
        IF p = <<link.to_event, link.from_event>>
        THEN [causation_type |-> link.causation_type, strength |-> link.strength,
              explanation |-> link.explanation, metrics_involved |-> link.metrics_involved]
        ELSE g[p]]

\* networkx DiGraph.add_edge: sets the attributes of the edge, new or existing
add_edge(g, link) ==
    [p \in (DOMAIN g) \cup {<<link.from_event, link.to_event>>} |->
        IF p = <<link.from_event, link.to_event>>
        THEN [causation_type |-> link.causation_type, strength |-> link.strength,
              explanation |-> link.explanation, metrics_involved |-> link.metrics_involved]
        ELSE g[p]]

\* the same without the has_edge test: a later link overwrites the edge
add_causation_link_unguarded(g, link) == add_edge(g, link)

add_causation_link(g, link) ==
    IF <<link.from_event, link.to_event>> \in DOMAIN g THEN g ELSE add_edge(g, link)

\* the edges one detection pass added, in the order of its for loop, after the
\* edges made before (the adjacency dicts of the DiGraph keep insertion order)
add_edge_keys(order, recent, new_event, g_before, g_after) ==
    order \o SelectSeq([i \in 1..Len(recent) |-> <<recent[i].event_id, new_event.event_id>>],
                       LAMBDA p : p \in DOMAIN g_after /\ p \notin DOMAIN g_before)

-----------------------------------------------------------------------------
(* Event store and detection pass *)

Event(event_id, timestamp, component, event_type, data) ==
    [event_id |-> event_id, timestamp |-> timestamp, component |-> component,
     event_type |-> event_type, data |-> data]

NoEvent == Event(0, 0, "", "", <<>>)

\* self.events[event.event_id] = event
store_event(evs, event) ==
    [id \in (DOMAIN evs) \cup {event.event_id} |->
        IF id = event.event_id THEN event ELSE evs[id]]

\* a dict keeps the position of a key that is assigned again
store_key(keys, evs, event) ==
    IF event.event_id \in DOMAIN evs THEN keys ELSE Append(keys, event.event_id)

\* the same with the list assigned instead of appended to
index_assign(index, key, event_id) ==
    [k \in (DOMAIN index) \cup {key} |-> IF k = key THEN <<event_id>> ELSE index[k]]

\* defaultdict(list)[key].append(event_id)
index_append(index, key, event_id) ==
    [k \in (DOMAIN index) \cup {key} |->
        IF k = key
        THEN (IF k \in DOMAIN index THEN index[k] ELSE <<>>) \o <<event_id>>
        ELSE index[k]]

\* deque(maxlen=1000).append(sample)
newest_evicted(d, sample) ==
    IF Len(d) >= HistoryMaxLen THEN SubSeq(d, 1, Len(d) - 1) \o <<sample>>
    ELSE Append(d, sample)

deque_append(d, sample) ==
    IF Len(d) >= HistoryMaxLen THEN Tail(d) \o <<sample>> ELSE Append(d, sample)

\* the loop of add_event over event.data.items()
update_metric_history(history, event) ==
    LET numeric == { m \in DOMAIN event.data : event.data[m].kind = "num" } IN
    [m \in (DOMAIN history) \cup numeric |->
        IF m \in numeric
        THEN deque_append(IF m \in DOMAIN history THEN history[m] ELSE <<>>,
                          [timestamp |-> event.timestamp, value |-> event.data[m].num,
                           event_id |-> event.event_id])
        ELSE history[m]]

\* e put behind the k entries of rest that are not older than it
put_behind(rest, e, k) == SubSeq(rest, 1, k) \o <<e>> \o SubSeq(rest, k + 1, Len(rest))

insert_by_timestamp(rest, e) ==
    put_behind(rest, e, Cardinality({ i \in 1..Len(rest) : rest[i].timestamp >= e.timestamp }))

\* the entries lo..hi of s inserted in turn into sorted, half by half: the
\* first half is in place before the second is begun
RECURSIVE sort_range(_, _, _, _)
sort_rest(s, lo, hi, sorted) ==
    IF Len(sorted) < lo - 1 THEN sorted ELSE sort_range(s, lo, hi, sorted)

sort_range(s, lo, hi, sorted) ==
    IF lo > hi THEN sorted
    ELSE IF lo = hi THEN insert_by_timestamp(sorted, s[lo])
    ELSE sort_rest(s, (lo + hi) \div 2 + 1, hi,
                   sort_range(s, lo, (lo + hi) \div 2, sorted))

\* sorted(..., key=timestamp, reverse=True): stable, ties keep dict order
SortedByTimestampDesc(s) == sort_range(s, 1, Len(s), <<>>)

\* [:100]
first_hundred(sorted) ==
    SubSeq(sorted, 1, IF Len(sorted) < RecentWindow THEN Len(sorted) ELSE RecentWindow)

\* list(self.events.values()), sorted, cut to the 100 latest
recent_events(evs, keys) ==
    first_hundred(SortedByTimestampDesc([i \in 1..Len(keys) |-> evs[keys[i]]]))

\* the order of the three tests: threshold, then correlation, then direct
FirstLink(th, co, di) ==
    IF th.raised THEN [link |-> None, raised |-> TRUE, trace |-> th.trace]
    ELSE IF th.link # None THEN [link |-> th.link, raised |-> FALSE, trace |-> th.trace]
    ELSE IF co # None THEN [link |-> co, raised |-> FALSE, trace |-> th.trace]
    ELSE [link |-> di, raised |-> FALSE, trace |-> th.trace]

\* the three tests of _detect_causations on one candidate
proposed_link(prev_event, new_event) ==
    FirstLink(check_threshold_causation(prev_event, new_event),
              check_correlation_causation(prev_event, new_event),
              check_direct_causation(prev_event, new_event,
                                     new_event.timestamp - prev_event.timestamp))

\* the threshold tests made on one candidate, tagged with the candidate's id
Tagged(prev_event, pairs) == { <<prev_event.event_id, p[1], p[2]>> : p \in pairs }

\* the body of the for loop of _detect_causations on one candidate that is
\* older than the new event; st carries the graph, whether a test raised,
\* the candidates gone over and the threshold tests made
Candidate(prev_event, new_event, st, r) ==
    IF r.raised
    THEN [graph |-> st.graph, raised |-> TRUE, examined |-> st.examined,
          tested |-> st.tested \cup Tagged(prev_event, r.trace.tested),
          crossed |-> st.crossed \cup Tagged(prev_event, r.trace.crossed)]
    ELSE [graph |-> IF r.link # None THEN add_causation_link(st.graph, r.link) ELSE st.graph,
          raised |-> FALSE,
          examined |-> st.examined \cup {prev_event.event_id},
          tested |-> st.tested \cup Tagged(prev_event, r.trace.tested),
          crossed |-> st.crossed \cup Tagged(prev_event, r.trace.crossed)]

\* one turn of the loop: nothing after a raise, `continue` for the event of
\* the same id, no test for a candidate that is not older
LoopTurn(prev_event, new_event, st) ==
    IF st.raised THEN st
    ELSE IF prev_event.event_id = new_event.event_id THEN st
    ELSE IF ~(prev_event.timestamp < new_event.timestamp)
    THEN [st EXCEPT !.examined = @ \cup {prev_event.event_id}]
    ELSE Candidate(prev_event, new_event, st, proposed_link(prev_event, new_event))

\* the turns lo..hi of the for loop in order, half by half: the second half
\* runs on what the first half left, unless that raised
RECURSIVE DetectLoop(_, _, _, _, _)
LoopRest(recent, lo, hi, new_event, st) ==
    IF st.raised THEN st ELSE DetectLoop(recent, lo, hi, new_event, st)

DetectLoop(recent, lo, hi, new_event, st) ==
    IF lo > hi THEN st
    ELSE IF lo = hi THEN LoopTurn(recent[lo], new_event, st)
    ELSE LoopRest(recent, (lo + hi) \div 2 + 1, hi, new_event,
                  DetectLoop(recent, lo, (lo + hi) \div 2, new_event, st))

detect_over(recent, new_event, g) ==
    DetectLoop(recent, 1, Len(recent), new_event,
               [graph |-> g, raised |-> FALSE, examined |-> {}, tested |-> {}, crossed |-> {}])

detect_causations(evs, keys, g, new_event) ==
    detect_over(recent_events(evs, keys), new_event, g)

-----------------------------------------------------------------------------
(* Inputs *)

Ids == 1..NumIds
Timestamps == { TimeStep * k : k \in 0..MaxTicks }
Threads == 1..NumThreads

Data1(k1, v1) == [k \in {k1} |-> v1]
Data2(k1, v1, k2, v2) == [k \in {k1, k2} |-> IF k = k1 THEN v1 ELSE v2]
Data3(k1, v1, k2, v2, k3, v3) ==
    [k \in {k1, k2, k3} |-> IF k = k1 THEN v1 ELSE IF k = k2 THEN v2 ELSE v3]

Templates ==
    { [component |-> "reality_sim", event_type |-> "state_change",
       data |-> Data3("a", PyNum(1000), "b", PyNum(10000), "violation_pressure", PyNum(20))],
      [component |-> "djinn_kernel", event_type |-> "phase_transition",
       data |-> Data3("a", PyNum(1300), "b", PyNum(7000), "violation_pressure", PyNum(30))],
      [component |-> "djinn_kernel", event_type |-> "Network_Collapse",
       data |-> Data3("modularity", PyNum(40), "a", PyNum(1000), "b", PyNum(10000))] }

EventSpace ==
    { Event(id, ts, t.component, t.event_type, t.data) :
        id \in Ids, ts \in Timestamps, t \in Templates }

PairDatas ==
    { <<>>,
      Data1("modularity", PyNum(20)), Data1("modularity", PyNum(40)),
      Data1("modularity", PyStr("low")),
      Data1("violation_pressure", PyNum(20)), Data1("violation_pressure", PyNum(30)),
      Data2("violation_pressure", PyNum(30), "phase", PyStr("transition")),
      Data2("a", PyNum(1000), "b", PyNum(10000)),
      Data2("a", PyNum(1300), "b", PyNum(7000)),
      Data2("a", PyNum(1100), "b", PyNum(7000)),
      Data3("organism_count", PyNum(1000), "a", PyNum(1000), "b", PyNum(10000)),
      Data3("organism_count", PyNum(1000), "a", PyNum(1300), "b", PyNum(7000)) }

PairPrevSpace ==
    { Event(1, TimeStep * k, c, "state_change", d) :
        k \in 0..PairTicks, c \in {"reality_sim", "djinn_kernel", "explorer"}, d \in PairDatas }

PairNewSpace ==
    { Event(2, TimeStep * k, c, ty, d) :
        k \in 0..PairTicks, c \in {"reality_sim", "djinn_kernel"},
        ty \in {"state_change", "phase_transition", "Network_Collapse"}, d \in PairDatas }

-----------------------------------------------------------------------------
(* add_event as one call: the store, both indices, the metric history and   *)
(* the detection pass, all under graph_lock; the lock is free again on      *)
(* return and when the detection pass raises.                               *)

Inserted(event, d) ==
    /\ graph_lock = 0
    /\ events' = store_event(events, event)
    /\ events_keys' = store_key(events_keys, events, event)
    /\ events_by_component' = index_append(events_by_component, event.component, event.event_id)
    /\ events_by_type' = index_append(events_by_type, event.event_type, event.event_id)
    /\ metric_history' = update_metric_history(metric_history, event)
    /\ causation_graph' = d.graph
    /\ edge_keys' = add_edge_keys(edge_keys,
                          recent_events(store_event(events, event),
                                        store_key(events_keys, events, event)),
                          event, causation_graph, d.graph)
    /\ graph_lock' = 0
    /\ calls' = calls + 1
    /\ passed' = passed \cup {event}
    /\ last' = [event |-> event, raised |-> d.raised, examined |-> d.examined,
                tested |-> d.tested, crossed |-> d.crossed,
                before |-> events, graph_before |-> causation_graph]

add_event(event) ==
    Inserted(event, detect_causations(store_event(events, event),
                                      store_key(events_keys, events, event),
                                      causation_graph, event))

InitStore ==
    /\ events = <<>>
    /\ events_keys = <<>>
    /\ events_by_component = <<>>
    /\ events_by_type = <<>>
    /\ metric_history = <<>>
    /\ causation_graph = <<>>
    /\ edge_keys = <<>>
    /\ graph_lock = 0
    /\ calls = 0
    /\ passed = {}
    /\ last = [event |-> NoEvent, raised |-> FALSE, examined |-> {},
               tested |-> {}, crossed |-> {},
               before |-> <<>>, graph_before |-> <<>>]

NoThreads ==
    /\ pc = [t \in Threads |-> "idle"]
    /\ arg = [t \in Threads |-> NoEvent]
    /\ snapshot = [taken |-> FALSE, events |-> <<>>, edges |-> <<>>]
    /\ completed = {}

NoPair ==
    /\ stage = 0
    /\ pairPrev = NoEvent
    /\ pairNew = NoEvent

\* __init__ lines 88-91; no adapter has run
NoLoad == [n |-> 0, force |-> FALSE, outcome |-> "", frame_count |-> -1,
           attempts |-> 0, raised |-> FALSE, made |-> 0, doc |-> <<>>]

StatsKeys == <<"total_events", "total_links", "components", "event_types",
               "metrics_tracked", "graph_density">>

NoStats == [at |-> 0, out |-> <<>>, seen |-> <<>>, raised |-> FALSE]

NoRuns == [doc |-> <<>>, at |-> <<>>, raised |-> <<>>, made |-> <<>>]

NoReplay == [n |-> 0, source |-> "", records |-> <<>>, trace |-> <<>>, caught |-> FALSE]

InitCursor ==
    /\ last_loaded_frame = -1
    /\ last_explorer_phase = PyNone
    /\ last_vp = PyNone
    /\ clock = 1
    /\ load = NoLoad
    /\ replay = NoReplay
    /\ stats = NoStats
    /\ runs = NoRuns

NoAdapter == InitCursor /\ tick = 1

\* Event ids are dictionary keys that the code only tests for equality, never
\* orders: a call brings an id that is already stored or the least one that is not.
CallIds == { id \in Ids : id \in DOMAIN events \/ \A j \in Ids : j < id => j \in DOMAIN events }

\* Any caller inserting any event, one call after the other
AddEvent ==
    /\ calls < MaxCalls
    /\ \E event \in EventSpace :
          /\ event.event_id \in CallIds
          /\ add_event(event)
    /\ UNCHANGED <<stage, pairPrev, pairNew, AdapterVars, stats, runs, pc, arg, snapshot, completed>>

Init == InitStore /\ NoThreads /\ NoPair /\ NoAdapter

Next == AddEvent

Spec == Init /\ [][Next]_vars

\* The same calls with the events that carry violation_pressure only: they
\* link in both directions and no detection pass raises, so the graphs the
\* traversals run on have chains and cycles.
GraphSpace == { event \in EventSpace : "violation_pressure" \in DOMAIN event.data }

AddLinked ==
    /\ calls < MaxCalls
    /\ \E event \in GraphSpace :
          /\ event.event_id \in CallIds
          /\ add_event(event)
    /\ UNCHANGED <<stage, pairPrev, pairNew, AdapterVars, stats, runs, pc, arg, snapshot, completed>>

InitGraph == Init

NextGraph == AddLinked

SpecGraph == InitGraph /\ [][NextGraph]_vars

-----------------------------------------------------------------------------
(* Two events inserted one after the other, drawn from a wider input space *)

InsertPrev ==
    /\ stage = 0
    /\ add_event(pairPrev)
    /\ stage' = 1
    /\ UNCHANGED <<pairPrev, pairNew, AdapterVars, stats, runs, pc, arg, snapshot, completed>>

InsertNew ==
    /\ stage = 1
    /\ add_event(pairNew)
    /\ stage' = 2
    /\ UNCHANGED <<pairPrev, pairNew, AdapterVars, stats, runs, pc, arg, snapshot, completed>>

InitPair ==
    /\ InitStore
    /\ NoThreads
    /\ NoAdapter
    /\ stage = 0
    /\ pairPrev \in PairPrevSpace
    /\ pairNew \in PairNewSpace

NextPair == InsertPrev \/ InsertNew

SpecPair == InitPair /\ [][NextPair]_vars

-----------------------------------------------------------------------------
(* Concurrent callers.  Caller t inserts one event of its own id, statement *)
(* by statement under graph_lock; the reader takes the graph snapshot of    *)
(* get_graph under the same lock.                                           *)

Reader == NumThreads + 1

ConcTemplates ==
    { [component |-> "reality_sim", event_type |-> "state_change",
       data |-> Data3("a", PyNum(1000), "b", PyNum(10000), "violation_pressure", PyNum(20))],
      [component |-> "djinn_kernel", event_type |-> "Network_Collapse",
       data |-> Data3("modularity", PyNum(40), "a", PyNum(1000), "b", PyNum(10000))] }

ConcSpace(t) ==
    { Event(t, ts, tp.component, tp.event_type, tp.data) :
        ts \in { TimeStep * k : k \in 0..ConcTicks }, tp \in ConcTemplates }

StoreVars == <<events, events_keys, events_by_component, events_by_type,
               metric_history, causation_graph, edge_keys>>

\* `with self.graph_lock:` entered: blocks while another caller holds the lock
Entered(t, event) ==
    /\ pc[t] = "idle"
    /\ graph_lock = 0
    /\ arg' = [arg EXCEPT ![t] = event]
    /\ passed' = passed \cup {event}
    /\ graph_lock' = t
    /\ pc' = [pc EXCEPT ![t] = "store"]
    /\ UNCHANGED <<StoreVars, calls, last, stage, pairPrev, pairNew, AdapterVars, stats, runs, snapshot, completed>>

Acquire(t) == \E event \in ConcSpace(t) : Entered(t, event)

StoreStep(t) ==
    /\ pc[t] = "store"
    /\ events' = store_event(events, arg[t])
    /\ events_keys' = store_key(events_keys, events, arg[t])
    /\ pc' = [pc EXCEPT ![t] = "index_component"]
    /\ UNCHANGED <<events_by_component, events_by_type, metric_history, causation_graph,
                   edge_keys, graph_lock, calls, passed, last, stage, pairPrev, pairNew, AdapterVars, stats, runs,
                   arg, snapshot, completed>>

IndexComponent(t) ==
    /\ pc[t] = "index_component"
    /\ events_by_component' = index_append(events_by_component, arg[t].component, arg[t].event_id)
    /\ pc' = [pc EXCEPT ![t] = "index_type"]
    /\ UNCHANGED <<events, events_keys, events_by_type, metric_history, causation_graph,
                   edge_keys, graph_lock, calls, passed, last, stage, pairPrev, pairNew, AdapterVars, stats, runs,
                   arg, snapshot, completed>>

IndexType(t) ==
    /\ pc[t] = "index_type"
    /\ events_by_type' = index_append(events_by_type, arg[t].event_type, arg[t].event_id)
    /\ pc' = [pc EXCEPT ![t] = "metrics"]
    /\ UNCHANGED <<events, events_keys, events_by_component, metric_history, causation_graph,
                   edge_keys, graph_lock, calls, passed, last, stage, pairPrev, pairNew, AdapterVars, stats, runs,
                   arg, snapshot, completed>>

UpdateMetrics(t) ==
    /\ pc[t] = "metrics"
    /\ metric_history' = update_metric_history(metric_history, arg[t])
    /\ pc' = [pc EXCEPT ![t] = "detect"]
    /\ UNCHANGED <<events, events_keys, events_by_component, events_by_type, causation_graph,
                   edge_keys, graph_lock, calls, passed, last, stage, pairPrev, pairNew, AdapterVars, stats, runs,
                   arg, snapshot, completed>>

\* the same with the lock released only when the pass returns
released_on_return_only(t, d) ==
    /\ pc[t] = "detect"
    /\ causation_graph' = d.graph
    /\ edge_keys' = add_edge_keys(edge_keys, recent_events(events, events_keys),
                                  arg[t], causation_graph, d.graph)
    /\ graph_lock' = IF d.raised THEN t ELSE 0
    /\ pc' = [pc EXCEPT ![t] = IF d.raised THEN "raised" ELSE "done"]
    /\ completed' = IF d.raised THEN completed ELSE completed \cup {arg[t].event_id}
    /\ UNCHANGED <<events, events_keys, events_by_component, events_by_type, metric_history,
                   calls, passed, last, stage, pairPrev, pairNew, AdapterVars, stats, runs, arg, snapshot>>

Detected(t, d) ==
    /\ pc[t] = "detect"
    /\ causation_graph' = d.graph
    /\ edge_keys' = add_edge_keys(edge_keys, recent_events(events, events_keys),
                                  arg[t], causation_graph, d.graph)
    /\ graph_lock' = 0
    /\ pc' = [pc EXCEPT ![t] = IF d.raised THEN "raised" ELSE "done"]
    /\ completed' = IF d.raised THEN completed ELSE completed \cup {arg[t].event_id}
    /\ UNCHANGED <<events, events_keys, events_by_component, events_by_type, metric_history,
                   calls, passed, last, stage, pairPrev, pairNew, AdapterVars, stats, runs, arg, snapshot>>

\* the detection pass, then the end of the with block: the lock is released
\* whether the pass returns or raises
Detect(t) ==
    Detected(t, detect_causations(events, events_keys, causation_graph, arg[t]))

\* get_graph: `with explorer.graph_lock:` entered
SnapAcquire ==
    /\ pc[Reader] = "idle"
    /\ graph_lock = 0
    /\ graph_lock' = Reader
    /\ pc' = [pc EXCEPT ![Reader] = "copy"]
    /\ UNCHANGED <<StoreVars, calls, passed, last, stage, pairPrev, pairNew, AdapterVars, stats, runs,
                   arg, snapshot, completed>>

\* events_snapshot = dict(explorer.events); edges_snapshot = list(edges); lock released
SnapCopy ==
    /\ pc[Reader] = "copy"
    /\ snapshot' = [taken |-> TRUE, events |-> events, edges |-> causation_graph]
    /\ graph_lock' = 0
    /\ pc' = [pc EXCEPT ![Reader] = "idle"]
    /\ UNCHANGED <<StoreVars, calls, passed, last, stage, pairPrev, pairNew, AdapterVars, stats, runs, arg, completed>>

InitConc ==
    /\ InitStore
    /\ NoPair
    /\ NoAdapter
    /\ pc = [t \in Threads \cup {Reader} |-> "idle"]
    /\ arg = [t \in Threads |-> NoEvent]
    /\ snapshot = [taken |-> FALSE, events |-> <<>>, edges |-> <<>>]
    /\ completed = {}

NextConc ==
    \/ \E t \in Threads : Acquire(t)
    \/ \E t \in Threads : StoreStep(t)
    \/ \E t \in Threads : IndexComponent(t)
    \/ \E t \in Threads : IndexType(t)
    \/ \E t \in Threads : UpdateMetrics(t)
    \/ \E t \in Threads : Detect(t)
    \/ SnapAcquire
    \/ SnapCopy

SpecConc == InitConc /\ [][NextConc]_vars

-----------------------------------------------------------------------------
(* The source adapters.  An adapter run makes several add_event calls in a  *)
(* row; the store is carried through them as one record.  `raised` is set   *)
(* once a call has raised: the exception leaves the adapter's code up to    *)
(* its except clause, so nothing after it runs.                             *)

TheStore ==
    [events |-> events, keys |-> events_keys, by_component |-> events_by_component,
     by_type |-> events_by_type, history |-> metric_history,
     graph |-> causation_graph, order |-> edge_keys, raised |-> FALSE]

\* the body of add_event on the record, d being the detection pass's result
stored(S, event, d) ==
    [events |-> store_event(S.events, event),
     keys |-> store_key(S.keys, S.events, event),
     by_component |-> index_append(S.by_component, event.component, event.event_id),
     by_type |-> index_append(S.by_type, event.event_type, event.event_id),
     history |-> update_metric_history(S.history, event),
     graph |-> d.graph,
     order |-> add_edge_keys(S.order,
                   recent_events(store_event(S.events, event),
                                 store_key(S.keys, S.events, event)),
                   event, S.graph, d.graph),
     raised |-> d.raised]

add_event_to(S, event) ==
    stored(S, event, detect_causations(store_event(S.events, event),
                                       store_key(S.keys, S.events, event),
                                       S.graph, event))

\* the store record becomes the state
StoreBecomes(S) ==
    /\ events' = S.events
    /\ events_keys' = S.keys
    /\ events_by_component' = S.by_component
    /\ events_by_type' = S.by_type
    /\ metric_history' = S.history
    /\ causation_graph' = S.graph
    /\ edge_keys' = S.order

\* Event(...) without event_id, then self.add_event(event): the id is the
\* clock reading; A carries the store, the adapter's fields, the clock and
\* `made`, the number of events the run has created
emit(A, timestamp, component, event_type, data) ==
    IF A.S.raised THEN A
    ELSE [A EXCEPT !.S = add_event_to(A.S, Event(A.clock, timestamp, component,
                                                 event_type, data)),
                   !.clock = A.clock + tick,
                   !.made = A.made + 1]

\* block.get(key, default)
Get(block, key, default) == IF key \in DOMAIN block THEN block[key] ELSE default

\* {defaults..., **block}
Merged(defaults, block) ==
    [k \in (DOMAIN defaults) \cup (DOMAIN block) |->
        IF k \in DOMAIN block THEN block[k] ELSE defaults[k]]

-----------------------------------------------------------------------------
(* Snapshot Adapter: _load_from_shared_state.  A document is a record with  *)
(* frame_count, timestamp (simulation_time) and data, a map from block name *)
(* to block; A carries the store, cursor, phase, vp and the clock.          *)

Frame(doc) == PyNum(100 * doc.frame_count)

HasBlock(doc, name) == name \in DOMAIN doc.data /\ doc.data[name] # <<>>

\* `if 'network' in data:` ... self.add_event(event)
network_block(A, doc) ==
    IF A.S.raised \/ ~HasBlock(doc, "network") THEN A
    ELSE emit(A, doc.timestamp, "reality_sim", "state_change",
              Merged([k \in {"organism_count", "connection_count", "modularity",
                             "clustering_coefficient", "frame_count"} |->
                         IF k = "frame_count" THEN Frame(doc) ELSE PyNum(0)],
                     doc.data["network"]))

\* `self._last_explorer_phase = explorer_data.get('phase')`, not reached when
\* an add_event before it raised
phase_set(A, phase) == IF A.S.raised THEN A ELSE [A EXCEPT !.phase = phase]

\* the phase_transition event, then the assignment of _last_explorer_phase
phase_change(A, doc, phase) ==
    IF A.S.raised THEN A
    ELSE IF A.phase # PyNone /\ A.phase # phase
    THEN phase_set(emit(A, doc.timestamp, "explorer", "phase_transition",
                        [k \in {"from_phase", "to_phase", "frame_count"} |->
                            IF k = "from_phase" THEN A.phase
                            ELSE IF k = "to_phase" THEN phase ELSE Frame(doc)]),
                   phase)
    ELSE phase_set(A, phase)

explorer_block(A, doc) ==
    IF A.S.raised \/ ~HasBlock(doc, "explorer") THEN A
    ELSE phase_change(
             emit(A, doc.timestamp, "explorer", "state_change",
                  Merged([k \in {"phase", "vp_calculations", "breath_cycle",
                                 "breath_depth", "frame_count"} |->
                             IF k = "phase" THEN PyStr("unknown")
                             ELSE IF k = "frame_count" THEN Frame(doc) ELSE PyNum(0)],
                         doc.data["explorer"])),
             doc, Get(doc.data["explorer"], "phase", PyNone))

\* thresholds['violation_pressure'].get(vp_key, 0)
vp_threshold(vp_key) ==
    LET items == thresholds[4].items
        hit == { j \in 1..Len(items) : items[j].name = vp_key }
    IN IF hit = {} THEN PyNum(0) ELSE items[CHOOSE j \in hit : TRUE].config

vp_keys == <<"vp0", "vp1", "vp2", "vp3">>

\* vp_key.upper()
Upper(vp_key) == CASE vp_key = "vp0" -> "VP0" [] vp_key = "vp1" -> "VP1"
                   [] vp_key = "vp2" -> "VP2" [] vp_key = "vp3" -> "VP3"

\* `a or b` on two comparison results
PyOr(first, second) == IF first = "F" THEN second ELSE first

\* self._last_vp < threshold <= vp or self._last_vp > threshold >= vp
vp_crossed(prev_vp, threshold, vp) ==
    PyOr(ChainLtLe(prev_vp, threshold, vp), ChainGtGe(prev_vp, threshold, vp))

\* the loop over vp_keys from position i on, c being the test at position i
RECURSIVE vp_crossings(_, _, _, _)
vp_crossing(A, doc, vp, i, c) ==
    IF c = "TypeError" THEN [A EXCEPT !.S.raised = TRUE]
    ELSE IF c = "T"
    THEN vp_crossings(emit(A, doc.timestamp, "djinn_kernel", "threshold_crossed",
                           [k \in {"metric", "threshold", "value", "frame_count"} |->
                               IF k = "metric" THEN PyStr("violation_pressure")
                               ELSE IF k = "threshold" THEN PyStr(Upper(vp_keys[i]))
                               ELSE IF k = "value" THEN vp ELSE Frame(doc)]),
                      doc, vp, i + 1)
    ELSE vp_crossings(A, doc, vp, i + 1)

vp_crossings(A, doc, vp, i) ==
    IF A.S.raised \/ i > Len(vp_keys) THEN A
    ELSE vp_crossing(A, doc, vp, i, vp_crossed(A.vp, vp_threshold(vp_keys[i]), vp))

\* `self._last_vp = vp`, not reached when something before it raised
vp_set(A, vp) == IF A.S.raised THEN A ELSE [A EXCEPT !.vp = vp]

vp_change(A, doc, vp) ==
    IF A.S.raised THEN A
    ELSE IF A.vp # PyNone THEN vp_set(vp_crossings(A, doc, vp, 1), vp)
    ELSE vp_set(A, vp)

djinn_block(A, doc) ==
    IF A.S.raised \/ ~HasBlock(doc, "djinn_kernel") THEN A
    ELSE vp_change(
             emit(A, doc.timestamp, "djinn_kernel", "state_change",
                  Merged([k \in {"violation_pressure", "vp_classification",
                                 "vp_calculations", "tape_cells", "frame_count"} |->
                             IF k = "vp_classification" THEN PyStr("VP0")
                             ELSE IF k = "frame_count" THEN Frame(doc) ELSE PyNum(0)],
                         doc.data["djinn_kernel"])),
             doc, Get(doc.data["djinn_kernel"], "violation_pressure", PyNum(0)))

\* the cursor takes frame_count, then the three blocks in turn
ingest(A, doc) ==
    djinn_block(explorer_block(network_block([A EXCEPT !.cursor = doc.frame_count],
                                             doc), doc), doc)

\* What one run finds at the file: exists(), then stat(), then `garbage`
\* reads that do not parse, then what ends the reading: the file gone, an
\* empty text, JSON without 'data', or a document.
Access(exists, stat, garbage, then, doc) ==
    [exists |-> exists, stat |-> stat, garbage |-> garbage, then |-> then, doc |-> doc]

NoDoc == [frame_count |-> 0, timestamp |-> 0, data |-> <<>>]

\* what the run did: the adapter state after it, the reads made, whether an
\* exception left _load_from_shared_state
Ran(A, outcome, attempts, raised) ==
    [A |-> A, outcome |-> outcome, attempts |-> attempts, raised |-> raised]

\* an exception of add_event ends in the except clause of line 351
Ingested(B, attempts) ==
    Ran([B EXCEPT !.S.raised = FALSE], IF B.S.raised THEN "caught" ELSE "ingested",
        attempts, FALSE)

\* the frame was already loaded: `if not force_reload and frame_count <=
\* self._last_loaded_frame: return`
only_older_frames(force_reload, frame_count, cursor) ==
    ~force_reload /\ frame_count < cursor

already_loaded(force_reload, frame_count, cursor) ==
    ~force_reload /\ frame_count <= cursor

load_from_shared_state(A, force_reload, acc) ==
    IF ~acc.exists THEN Ran(A, "missing", 0, FALSE)
    ELSE IF acc.stat = "missing" THEN Ran(A, "FileNotFoundError", 0, TRUE)
    ELSE IF acc.stat = "small" THEN Ran(A, "small", 0, FALSE)
    ELSE IF acc.garbage >= MaxRetries THEN Ran(A, "caught", MaxRetries, FALSE)
    ELSE IF acc.then = "missing" THEN Ran(A, "caught", acc.garbage + 1, FALSE)
    ELSE IF acc.then = "empty" THEN Ran(A, "empty", acc.garbage + 1, FALSE)
    ELSE IF acc.then = "nodata" THEN Ran(A, "nodata", acc.garbage + 1, FALSE)
    ELSE IF already_loaded(force_reload, acc.doc.frame_count, A.cursor)
    THEN Ran(A, "stale", acc.garbage + 1, FALSE)
    ELSE Ingested(ingest(A, acc.doc), acc.garbage + 1)

\* the documents read
Shapes ==
    { [k \in {"network", "explorer", "djinn_kernel"} |->
          IF k = "network" THEN Data2("organism_count", PyNum(1000), "modularity", PyNum(40))
          ELSE IF k = "explorer" THEN Data1("phase", PyStr("genesis"))
          ELSE Data1("violation_pressure", PyNum(20))],
      [k \in {"network", "explorer", "djinn_kernel"} |->
          IF k = "network" THEN <<>>
          ELSE IF k = "explorer" THEN Data1("phase", PyStr("sovereign"))
          ELSE Data1("violation_pressure", PyNum(30))],
      <<>> }

Docs ==
    { [frame_count |-> f, timestamp |-> TimeStep * f, data |-> d] :
        f \in 0..MaxFrame, d \in Shapes }

Accesses ==
    {Access(FALSE, "missing", 0, "missing", NoDoc),
     Access(TRUE, "missing", 0, "missing", NoDoc),
     Access(TRUE, "small", 0, "empty", NoDoc),
     Access(TRUE, "ok", MaxRetries, "missing", NoDoc)}
    \cup { Access(TRUE, "ok", g, t, NoDoc) :
             g \in {0, MaxRetries - 1}, t \in {"missing", "empty", "nodata"} }
    \cup { Access(TRUE, "ok", g, "doc", d) : g \in {0, MaxRetries - 1}, d \in Docs }

TheAdapter ==
    [S |-> TheStore, cursor |-> last_loaded_frame, phase |-> last_explorer_phase,
     vp |-> last_vp, clock |-> clock, made |-> 0]

Loaded(force_reload, acc, r) ==
    /\ StoreBecomes(r.A.S)
    /\ last_loaded_frame' = r.A.cursor
    /\ last_explorer_phase' = r.A.phase
    /\ last_vp' = r.A.vp
    /\ clock' = r.A.clock + 1
    /\ load' = [n |-> load.n + 1, force |-> force_reload, outcome |-> r.outcome,
                frame_count |-> IF acc.then = "doc" /\ r.attempts > acc.garbage
                                THEN acc.doc.frame_count ELSE -1,
                attempts |-> r.attempts, raised |-> r.raised, made |-> r.A.made,
                doc |-> IF acc.then = "doc" /\ r.attempts > acc.garbage
                        THEN acc.doc ELSE <<>>]
    /\ UNCHANGED <<graph_lock, calls, passed, last, stage, pairPrev, pairNew,
                   pc, arg, snapshot, completed, tick, replay, stats, runs>>

\* one run of the Snapshot Adapter, forced or not
LoadFromSharedState ==
    /\ load.n < MaxLoads
    /\ \E force_reload \in BOOLEAN, acc \in Accesses :
          Loaded(force_reload, acc, load_from_shared_state(TheAdapter, force_reload, acc))

InitAdapter ==
    /\ InitStore
    /\ NoThreads
    /\ NoPair
    /\ InitCursor
    /\ tick \in {0, 1}

NextAdapter == LoadFromSharedState

SpecAdapter == InitAdapter /\ [][NextAdapter]_vars

-----------------------------------------------------------------------------
(* Snapshot Adapter runs side by side.  The web UI calls                    *)
(* _load_from_shared_state from its request handlers and takes no lock for  *)
(* it; only add_event inside it runs under graph_lock.  Each caller reads   *)
(* the same document and makes a non-forced run in steps: the cursor test,  *)
(* the cursor assignment, then one step per block of the document.          *)

NumRunners == 2

Runners == 1..NumRunners

RunDocs == { doc \in Docs : doc.data # <<>> }

\* the adapter as caller c finds it: an exception raised earlier in c's run
\* has left the try block
AdapterOf(c) ==
    [S |-> [TheStore EXCEPT !.raised = runs.raised[c]], cursor |-> last_loaded_frame,
     phase |-> last_explorer_phase, vp |-> last_vp, clock |-> clock, made |-> runs.made[c]]

RunsAt(c, at) == [runs EXCEPT !.at[c] = at]

\* `if not force_reload and frame_count <= self._last_loaded_frame: return`
CursorTest(c) ==
    /\ runs.at[c] = "idle"
    /\ runs' = RunsAt(c, IF already_loaded(FALSE, runs.doc.frame_count, last_loaded_frame)
                          THEN "stale" ELSE "set")
    /\ UNCHANGED <<StoreVars, graph_lock, calls, passed, last, stage, pairPrev, pairNew,
                   AdapterVars, stats, pc, arg, snapshot, completed>>

\* `self._last_loaded_frame = int(frame_count)`
CursorSet(c) ==
    /\ runs.at[c] = "set"
    /\ last_loaded_frame' = runs.doc.frame_count
    /\ runs' = RunsAt(c, "network")
    /\ UNCHANGED <<StoreVars, graph_lock, calls, passed, last, stage, pairPrev, pairNew,
                   last_explorer_phase, last_vp, clock, tick, load, replay,
                   stats, pc, arg, snapshot, completed>>

\* one block of the document done by caller c, B being the adapter after it
BlockDone(c, B, then) ==
    /\ graph_lock = 0
    /\ StoreBecomes(B.S)
    /\ last_explorer_phase' = B.phase
    /\ last_vp' = B.vp
    /\ clock' = B.clock
    /\ runs' = [runs EXCEPT !.at[c] = then, !.raised[c] = B.S.raised, !.made[c] = B.made]
    /\ UNCHANGED <<graph_lock, calls, passed, last, stage, pairPrev, pairNew,
                   last_loaded_frame, tick, load, replay, stats, pc, arg, snapshot, completed>>

NetworkBlock(c) ==
    /\ runs.at[c] = "network"
    /\ BlockDone(c, network_block(AdapterOf(c), runs.doc), "explorer")

ExplorerBlock(c) ==
    /\ runs.at[c] = "explorer"
    /\ BlockDone(c, explorer_block(AdapterOf(c), runs.doc), "djinn_kernel")

DjinnBlock(c) ==
    /\ runs.at[c] = "djinn_kernel"
    /\ BlockDone(c, djinn_block(AdapterOf(c), runs.doc), "ingested")

InitRace ==
    /\ InitStore
    /\ NoThreads
    /\ NoPair
    /\ last_loaded_frame = -1
    /\ last_explorer_phase = PyNone
    /\ last_vp = PyNone
    /\ clock = 1
    /\ tick = 1
    /\ load = NoLoad
    /\ replay = NoReplay
    /\ stats = NoStats
    /\ \E doc \in RunDocs :
          runs = [doc |-> doc, at |-> [c \in Runners |-> "idle"],
                  raised |-> [c \in Runners |-> FALSE], made |-> [c \in Runners |-> 0]]

NextRace ==
    \E c \in Runners :
        \/ CursorTest(c)
        \/ CursorSet(c)
        \/ NetworkBlock(c)
        \/ ExplorerBlock(c)
        \/ DjinnBlock(c)

SpecRace == InitRace /\ [][NextRace]_vars

-----------------------------------------------------------------------------
(* Ledger Adapter and Log-Line Adapter, as _load_state_history runs them.   *)
(* The run keeps a trace with one entry per record it came to: the id of    *)
(* the Event it built (0 when it built none) and whether the record raised. *)

TheReplay ==
    [S |-> TheStore, cursor |-> last_loaded_frame, phase |-> last_explorer_phase,
     vp |-> last_vp, clock |-> clock, made |-> 0, trace |-> <<>>]

Came(A, B, event_id) ==
    [B EXCEPT !.trace = Append(A.trace, [event_id |-> event_id, raised |-> B.S.raised])]

\* a tape cell as read_cell returns it; content None stands for a content
\* that is no mapping, for which `**cell.content` raises TypeError
Cell(present, timestamp, content, position) ==
    [present |-> present, timestamp |-> timestamp, content |-> content,
     position |-> position, symbol |-> PyStr("low"), agent_id |-> PyStr("stable")]

\* {**cell.content, 'tape_position': ..., 'symbol': ..., 'agent_id': ...}
cell_data(cell) ==
    Merged(cell.content,
           [k \in {"tape_position", "symbol", "agent_id"} |->
               IF k = "tape_position" THEN PyNum(100 * cell.position)
               ELSE IF k = "symbol" THEN cell.symbol ELSE cell.agent_id])

\* the body of the for loop of _load_from_akashic_ledger
replay_cell(A, cell) ==
    IF ~cell.present THEN Came(A, A, 0)
    ELSE IF cell.content = PyNone THEN Came(A, [A EXCEPT !.S.raised = TRUE], 0)
    ELSE Came(A, emit(A, cell.timestamp, "djinn_kernel", "tape_cell", cell_data(cell)),
                A.clock)

\* for position in range(total_cells): nothing catches inside the loop
RECURSIVE load_from_akashic_ledger(_, _, _)
load_from_akashic_ledger(A, ledger, i) ==
    IF A.S.raised \/ i > Len(ledger) THEN A
    ELSE load_from_akashic_ledger(replay_cell(A, ledger[i]), ledger, i + 1)

\* parts of a log line: a word without ':' or a key:value pair whose value
\* has a '.' or not and is accepted by float() / int() or not
Word(text) == [colon |-> FALSE, key |-> text, dot |-> FALSE, numeric |-> FALSE,
               num |-> 0, text |-> text]
Pair(key, dot, numeric, num, text) ==
    [colon |-> TRUE, key |-> key, dot |-> dot, numeric |-> numeric, num |-> num,
     text |-> text]

\* float(value) if '.' in value else int(value); on ValueError the text
coerce(part) == IF part.numeric THEN PyNum(part.num) ELSE PyStr(part.text)

\* the loop over metrics_str.split('|'): a later pair with the same key wins
parse_metrics(parts) ==
    LET keys == { parts[j].key : j \in { j \in 4..Len(parts) : parts[j].colon } } IN
    [k \in keys |->
        coerce(parts[CHOOSE j \in 4..Len(parts) :
                        /\ parts[j].colon /\ parts[j].key = k
                        /\ \A l \in (j + 1)..Len(parts) :
                              ~(parts[l].colon /\ parts[l].key = k)])]

\* log_component or component
PyOrStr(first, second) == IF first = "" THEN second ELSE first

\* _parse_log_line: `except Exception: pass` ends every exception here
parse_log_line(A, line, component) ==
    IF Len(line.parts) < 4 THEN Came(A, A, 0)
    ELSE [Came(A, emit(A, line.at, PyOrStr(line.parts[3].key, component),
                         "state_change", parse_metrics(line.parts)), A.clock)
            EXCEPT !.S.raised = FALSE]

\* for line in f: self._parse_log_line(line, log_file.stem)
RECURSIVE load_log_file(_, _, _, _)
load_log_file(A, lines, component, i) ==
    IF i > Len(lines) THEN A
    ELSE load_log_file(parse_log_line(A, lines[i], component), lines, component, i + 1)

\* the records read: a cell with plain content, one with a configured
\* metric, an empty position, a cell whose content is no mapping
CellKinds == {"plain", "modularity", "absent", "broken"}

CellOf(kind, i) ==
    Cell(kind # "absent", TimeStep * (i - 1),
         CASE kind = "plain" -> Data1("a", PyNum(1000))
           [] kind = "modularity" -> Data1("modularity", PyNum(40))
           [] kind = "absent" -> <<>>
           [] kind = "broken" -> PyNone,
         i - 1)

Ledgers ==
    UNION { { [i \in 1..n |-> CellOf(kinds[i], i)] : kinds \in [1..n -> CellKinds] } :
              n \in 0..MaxCells }

LineKinds == {"plain", "modularity", "short", "text"}

\* a line and the reading of time.time() when it is parsed
LineOf(kind, i) ==
    [at |-> TimeStep * (i - 1),
     parts |->
        CASE kind = "plain" ->
               <<Word("low"), Word("stable"), Word("reality_sim"),
                 Pair("a", TRUE, TRUE, 1000, "")>>
          [] kind = "modularity" ->
               <<Word("low"), Word("stable"), Word("reality_sim"),
                 Pair("modularity", TRUE, TRUE, 40, ""), Pair("b", FALSE, TRUE, 10000, "")>>
          [] kind = "short" -> <<Word("low"), Word("stable"), Word("reality_sim")>>
          [] kind = "text" ->
               <<Word("low"), Word("stable"), Word(""),
                 Pair("phase", FALSE, FALSE, 0, "genesis"), Word("stable"),
                 Pair("phase", FALSE, FALSE, 0, "sovereign")>>]

LogFiles ==
    UNION { { [i \in 1..n |-> LineOf(kinds[i], i)] : kinds \in [1..n -> LineKinds] } :
              n \in 0..MaxCells }

Replayed(source, records, A) ==
    /\ StoreBecomes([A.S EXCEPT !.raised = FALSE])
    /\ clock' = A.clock + 1
    /\ replay' = [n |-> replay.n + 1, source |-> source, records |-> records,
                  trace |-> A.trace, caught |-> A.S.raised]
    /\ UNCHANGED <<graph_lock, calls, passed, last, stage, pairPrev, pairNew,
                   pc, arg, snapshot, completed, last_loaded_frame,
                   last_explorer_phase, last_vp, tick, load, stats, runs>>

\* _load_state_history lines 134-138: the ledger replay inside try/except
LoadFromAkashicLedger ==
    /\ replay.n < MaxReplays
    /\ \E ledger \in Ledgers :
          Replayed("ledger", ledger, load_from_akashic_ledger(TheReplay, ledger, 1))

\* _load_state_history lines 152-160: one log file, named explorer.log
LoadLogFile ==
    /\ replay.n < MaxReplays
    /\ \E lines \in LogFiles :
          Replayed("log", lines, load_log_file(TheReplay, lines, "explorer", 1))

InitReplay ==
    /\ InitStore
    /\ NoThreads
    /\ NoPair
    /\ NoAdapter

NextReplay == LoadFromAkashicLedger \/ LoadLogFile

SpecReplay == InitReplay /\ [][NextReplay]_vars

-----------------------------------------------------------------------------
(* A long run of inserts.  One caller has passed Event(k, 'reality_sim',    *)
(* 'state_change', {'a': k}, id 1) to add_event for k = 1..n: the id is     *)
(* stored once, the indexes and the history of 'a' have n entries each and  *)
(* no edge was made, the only stored event being the inserted one.          *)

Sampled(k) == Event(1, k, "reality_sim", "state_change", Data1("a", PyNum(k)))

AfterInserts(n) ==
    /\ events = [id \in {1} |-> Sampled(n)]
    /\ events_keys = <<1>>
    /\ events_by_component = [c \in {"reality_sim"} |-> [k \in 1..n |-> 1]]
    /\ events_by_type = [c \in {"state_change"} |-> [k \in 1..n |-> 1]]
    /\ metric_history =
          [m \in {"a"} |-> [k \in 1..n |-> [timestamp |-> k, value |-> k, event_id |-> 1]]]
    /\ causation_graph = <<>>
    /\ edge_keys = <<>>
    /\ graph_lock = 0
    /\ calls = n
    /\ passed = { Sampled(k) : k \in 1..n }
    /\ last = [event |-> Sampled(n), raised |-> FALSE, examined |-> {},
               tested |-> {}, crossed |-> {},
               before |-> IF n = 1 THEN <<>> ELSE [id \in {1} |-> Sampled(n - 1)],
               graph_before |-> <<>>]

\* the events of the next call, at the next timestamp
NextEvents(k) ==
    { Event(1, k, "reality_sim", "state_change", Data1("a", PyNum(k))),
      Event(1, k, "reality_sim", "state_change", Data2("a", PyNum(k), "b", PyNum(10 * k))),
      Event(1, k, "reality_sim", "state_change", Data1("b", PyNum(10 * k))),
      Event(2, k, "djinn_kernel", "state_change", Data1("a", PyNum(k))) }

AppendSample ==
    /\ calls < HistoryMaxLen + MaxAppends
    /\ \E event \in NextEvents(calls + 1) : add_event(event)
    /\ UNCHANGED <<stage, pairPrev, pairNew, AdapterVars, stats, runs, pc, arg, snapshot, completed>>

InitHistory ==
    /\ \E n \in (HistoryMaxLen - HistorySlack)..HistoryMaxLen : AfterInserts(n)
    /\ NoThreads
    /\ NoPair
    /\ NoAdapter

NextHistory == AppendSample

SpecHistory == InitHistory /\ [][NextHistory]_vars

-----------------------------------------------------------------------------
(* Queries *)

\* the nodes of the DiGraph: add_edge is the only call that adds any
Nodes(g) == { p[1] : p \in DOMAIN g } \cup { p[2] : p \in DOMAIN g }

predecessors(g, n) == { p[1] : p \in { q \in DOMAIN g : q[2] = n } }

successors(g, n) == { p[2] : p \in { q \in DOMAIN g : q[1] = n } }

to_dict(event) ==
    [event_id |-> event.event_id, timestamp |-> event.timestamp,
     component |-> event.component, event_type |-> event.event_type,
     data |-> event.data]

\* get_event_summary: {} for an unknown id; DiGraph.predecessors raises
\* NetworkXError for an id that is not a node of the graph
get_event_summary(event_id) ==
    IF event_id \notin DOMAIN events
    THEN [status |-> "empty", event |-> NoEvent, caused_by |-> 0, caused |-> 0]
    ELSE IF event_id \notin Nodes(causation_graph)
    THEN [status |-> "NetworkXError", event |-> NoEvent, caused_by |-> 0, caused |-> 0]
    ELSE [status |-> "ok", event |-> to_dict(events[event_id]),
          caused_by |-> Cardinality(predecessors(causation_graph, event_id)),
          caused |-> Cardinality(successors(causation_graph, event_id))]

\* list(self.causation_graph.predecessors(n)) and list(...successors(n)):
\* the neighbours in the order their edges were added
predecessors_list(order, n) ==
    LET into == SelectSeq(order, LAMBDA p : p[2] = n) IN [i \in 1..Len(into) |-> into[i][1]]

successors_list(order, n) ==
    LET out == SelectSeq(order, LAMBDA p : p[1] = n) IN [i \in 1..Len(out) |-> out[i][2]]

neighbours(dir, order, n) ==
    IF dir = "backwards" THEN predecessors_list(order, n) ELSE successors_list(order, n)

\* one entry of a trail: 'is_root' / 'is_final' for an event without
\* neighbours, else 'caused_by' / 'caused' with the neighbours' events
TrailEntry(evs, current_id, depth, nbrs) ==
    [event |-> to_dict(evs[current_id]), depth |-> depth, end |-> (Len(nbrs) = 0),
     linked |-> [i \in 1..Len(nbrs) |-> to_dict(evs[nbrs[i]])]]

\* traverse_backwards / traverse_forwards, the nested functions of
\* explore_backwards / explore_forwards; st carries trail and visited, whether
\* the DiGraph raised NetworkXError, and the number of calls made
\* the same without the visited test: only the depth stops the recursion
stop_at_depth_only(current_id, depth, max_depth, visited) == depth > max_depth

\* `if depth > max_depth or current_id in visited: return`
stop_here(current_id, depth, max_depth, visited) ==
    depth > max_depth \/ current_id \in visited

RECURSIVE traverse(_, _, _, _, _, _, _, _)
RECURSIVE traverse_each(_, _, _, _, _, _, _, _, _)
visit(dir, evs, g, order, nbrs, current_id, depth, max_depth, st) ==
    traverse_each(dir, evs, g, order, nbrs, 1, depth + 1, max_depth,
                  [st EXCEPT !.trail = Append(@, TrailEntry(evs, current_id, depth, nbrs)),
                             !.visited = @ \cup {current_id}])

traverse(dir, evs, g, order, current_id, depth, max_depth, st) ==
    IF st.raised THEN st
    ELSE IF stop_here(current_id, depth, max_depth, st.visited)
    THEN [st EXCEPT !.calls = @ + 1]
    ELSE IF current_id \notin Nodes(g)
    THEN [st EXCEPT !.calls = @ + 1, !.visited = @ \cup {current_id}, !.raised = TRUE]
    ELSE visit(dir, evs, g, order, neighbours(dir, order, current_id), current_id, depth,
               max_depth, [st EXCEPT !.calls = @ + 1])

\* `for pred_id in predecessors: traverse_backwards(pred_id, depth + 1)`
traverse_each(dir, evs, g, order, nbrs, i, depth, max_depth, st) ==
    IF i > Len(nbrs) THEN st
    ELSE traverse_each(dir, evs, g, order, nbrs, i + 1, depth, max_depth,
                       traverse(dir, evs, g, order, nbrs[i], depth, max_depth, st))

\* trail.sort(key=depth): stable; reverse=True keeps equal depths in order too
RECURSIVE sort_by_depth(_, _)
sort_by_depth(trail, reverse) ==
    IF Len(trail) = 0 THEN <<>>
    ELSE LET rest == sort_by_depth(SubSeq(trail, 1, Len(trail) - 1), reverse)
             e == trail[Len(trail)]
             k == Cardinality({ i \in 1..Len(rest) :
                                  IF reverse THEN rest[i].depth >= e.depth
                                             ELSE rest[i].depth <= e.depth })
         IN SubSeq(rest, 1, k) \o <<e>> \o SubSeq(rest, k + 1, Len(rest))

explored(dir, st) ==
    IF st.raised THEN [status |-> "NetworkXError", trail |-> <<>>, calls |-> st.calls]
    ELSE [status |-> "ok", trail |-> sort_by_depth(st.trail, dir = "backwards"),
          calls |-> st.calls]

explore(dir, evs, g, order, event_id, max_depth) ==
    IF event_id \notin DOMAIN evs THEN [status |-> "ok", trail |-> <<>>, calls |-> 0]
    ELSE explored(dir, traverse(dir, evs, g, order, event_id, 0, max_depth,
                      [trail |-> <<>>, visited |-> {}, raised |-> FALSE, calls |-> 0]))

explore_backwards(event_id, max_depth) ==
    explore("backwards", events, causation_graph, edge_keys, event_id, max_depth)

explore_forwards(event_id, max_depth) ==
    explore("forwards", events, causation_graph, edge_keys, event_id, max_depth)

\* breadth-first distance from the frontier to target along the edges of g;
\* -1 when the search runs dry
RECURSIVE distance(_, _, _, _, _)
distance(g, frontier, seen, target, d) ==
    IF target \in frontier THEN d
    ELSE IF frontier = {} THEN -1
    ELSE distance(g, (UNION { successors(g, n) : n \in frontier }) \ seen,
                  seen \cup (UNION { successors(g, n) : n \in frontier }), target, d + 1)

\* the node lists with d edges that lead from source to target
paths_of_length(g, source, target, d) ==
    { p \in [1..(d + 1) -> Nodes(g)] :
        /\ p[1] = source
        /\ p[d + 1] = target
        /\ \A i \in 1..d : <<p[i], p[i + 1]>> \in DOMAIN g }

\* nx.shortest_path(G, source, target): NodeNotFound when either end is not a
\* node of G, NetworkXNoPath when target cannot be reached, else one of the
\* paths with the fewest edges
shortest_path(g, source, target, d) ==
    IF d < 0 THEN [status |-> "NetworkXNoPath", paths |-> {}]
    ELSE [status |-> "path", paths |-> paths_of_length(g, source, target, d)]

\* find_path: only NetworkXNoPath is caught and turned into None
find_path(from_event_id, to_event_id) ==
    IF from_event_id \notin Nodes(causation_graph) \/ to_event_id \notin Nodes(causation_graph)
    THEN [status |-> "NodeNotFound", paths |-> {}]
    ELSE LET r == shortest_path(causation_graph, from_event_id, to_event_id,
                                distance(causation_graph, {from_event_id}, {from_event_id},
                                         to_event_id, 0))
         IN IF r.status = "NetworkXNoPath" THEN [status |-> "None", paths |-> {}] ELSE r

-----------------------------------------------------------------------------
(* get_causation_stats.  The method takes no lock: it builds its dict entry *)
(* by entry, each entry reading the store as it is at that moment, and the  *)
(* last entry iterates the edges of the graph.                              *)

add_node(nodes, n) ==
    IF \E i \in 1..Len(nodes) : nodes[i] = n THEN nodes ELSE Append(nodes, n)

\* the nodes of the DiGraph in the order add_edge(u, v) made them
RECURSIVE graph_nodes(_, _)
graph_nodes(order, n) ==
    IF n = 0 THEN <<>>
    ELSE add_node(add_node(graph_nodes(order, n - 1), order[n][1]), order[n][2])

\* DiGraph.edges: node by node, each node's out-edges in the order made
RECURSIVE edges_from(_, _, _)
edges_from(order, nodes, i) ==
    IF i > Len(nodes) THEN <<>>
    ELSE SelectSeq(order, LAMBDA p : p[1] = nodes[i]) \o edges_from(order, nodes, i + 1)

graph_edges(order) == edges_from(order, graph_nodes(order, Len(order)), 1)

\* one entry of the list comprehension of lines 766-774
link_dict(evs, g, p) ==
    [from |-> IF p[1] \in DOMAIN evs THEN to_dict(evs[p[1]]) ELSE <<>>,
     to |-> IF p[2] \in DOMAIN evs THEN to_dict(evs[p[2]]) ELSE <<>>,
     strength |-> g[p].strength,
     explanation |-> g[p].explanation]

\* sorted(..., key=strength, reverse=True): stable
insert_by_strength(rest, e) ==
    LET k == Cardinality({ i \in 1..Len(rest) : rest[i].strength >= e.strength })
    IN SubSeq(rest, 1, k) \o <<e>> \o SubSeq(rest, k + 1, Len(rest))

RECURSIVE sort_by_strength(_)
sort_by_strength(links) ==
    IF Len(links) = 0 THEN <<>>
    ELSE insert_by_strength(sort_by_strength(SubSeq(links, 1, Len(links) - 1)),
                            links[Len(links)])

first_ten(sorted) ==
    SubSeq(sorted, 1, IF Len(sorted) < MaxStrongest THEN Len(sorted) ELSE MaxStrongest)

strongest_links(evs, g, edges) ==
    first_ten(sort_by_strength([i \in 1..Len(edges) |-> link_dict(evs, g, edges[i])]))

\* nx.density of a DiGraph, as the fraction m / (n * (n - 1))
density(n, m) ==
    IF n = 0 \/ m = 0 THEN [num |-> 0, den |-> 1] ELSE [num |-> m, den |-> n * (n - 1)]

\* one entry of the dict of get_causation_stats read on the store S
stats_entry(S, key) ==
    CASE key = "total_events" -> Cardinality(DOMAIN S.events)
      [] key = "total_links" -> Cardinality(DOMAIN S.graph)
      [] key = "components" -> DOMAIN S.by_component
      [] key = "event_types" -> DOMAIN S.by_type
      [] key = "metrics_tracked" -> DOMAIN S.history
      [] key = "graph_density" ->
             density(Cardinality(Nodes(S.graph)), Cardinality(DOMAIN S.graph))
      [] key = "strongest_links" -> strongest_links(S.events, S.graph, graph_edges(S.order))

\* get_causation_stats on one store state
get_causation_stats(S) ==
    [key \in { StatsKeys[i] : i \in 1..Len(StatsKeys) } \cup {"strongest_links"} |->
        stats_entry(S, key)]

with_entry(out, key, value) ==
    [k \in (DOMAIN out) \cup {key} |-> IF k = key THEN value ELSE out[k]]

\* the next of the first six entries is evaluated
StatsRead ==
    /\ stats.at < Len(StatsKeys)
    /\ stats' = [stats EXCEPT !.at = @ + 1,
                              !.out = with_entry(@, StatsKeys[stats.at + 1],
                                                 stats_entry(TheStore, StatsKeys[stats.at + 1]))]
    /\ UNCHANGED <<StoreVars, graph_lock, calls, passed, last, stage, pairPrev, pairNew,
                   AdapterVars, pc, arg, snapshot, completed, runs>>

\* the iteration over causation_graph.edges(data=True) begins
StatsIterate ==
    /\ stats.at = Len(StatsKeys)
    /\ stats' = [stats EXCEPT !.at = @ + 1, !.seen = edge_keys]
    /\ UNCHANGED <<StoreVars, graph_lock, calls, passed, last, stage, pairPrev, pairNew,
                   AdapterVars, pc, arg, snapshot, completed, runs>>

\* the iteration ends and the dict is returned.  When an insert has added
\* edges meanwhile, the iterator raises RuntimeError (a dict changed size
\* during iteration) or goes on, with or without the new edges.
StatsReturn ==
    /\ stats.at = Len(StatsKeys) + 1
    /\ \/ stats' = [stats EXCEPT !.at = @ + 1,
                       !.out = with_entry(@, "strongest_links",
                                   strongest_links(events, causation_graph,
                                                   graph_edges(edge_keys)))]
       \/ /\ stats.seen # edge_keys
          /\ \/ stats' = [stats EXCEPT !.at = @ + 1,
                             !.out = with_entry(@, "strongest_links",
                                         strongest_links(events, causation_graph,
                                                         graph_edges(stats.seen)))]
             \/ stats' = [stats EXCEPT !.at = @ + 1, !.raised = TRUE]
    /\ UNCHANGED <<StoreVars, graph_lock, calls, passed, last, stage, pairPrev, pairNew,
                   AdapterVars, pc, arg, snapshot, completed, runs>>

InitStats == InitConc

NextStats ==
    \/ \E t \in Threads : Acquire(t)
    \/ \E t \in Threads : StoreStep(t)
    \/ \E t \in Threads : IndexComponent(t)
    \/ \E t \in Threads : IndexType(t)
    \/ \E t \in Threads : UpdateMetrics(t)
    \/ \E t \in Threads : Detect(t)
    \/ StatsRead
    \/ StatsIterate
    \/ StatsReturn

SpecStats == InitStats /\ [][NextStats]_vars

-----------------------------------------------------------------------------
(* The rules as the specification reads them, for stating the properties *)

RuleTable ==
    { [metric |-> "modularity", label |-> "collapse", boundary |-> 30, direction |-> "below"],
      [metric |-> "organism_count", label |-> "collapse", boundary |-> 50000, direction |-> "above"],
      [metric |-> "clustering_coefficient", label |-> "collapse", boundary |-> 50, direction |-> "above"],
      [metric |-> "violation_pressure", label |-> "vp0", boundary |-> 25, direction |-> "above"],
      [metric |-> "violation_pressure", label |-> "vp1", boundary |-> 50, direction |-> "above"],
      [metric |-> "violation_pressure", label |-> "vp2", boundary |-> 75, direction |-> "above"],
      [metric |-> "violation_pressure", label |-> "vp3", boundary |-> 99, direction |-> "above"],
      [metric |-> "vp_calculations", label |-> "transition", boundary |-> 5000, direction |-> "above"] }

NumericIn(event, metric) ==
    metric \in DOMAIN event.data /\ event.data[metric].kind = "num"

DirectionAwareCrossed(rule, prev_event, new_event) ==
    /\ NumericIn(prev_event, rule.metric)
    /\ NumericIn(new_event, rule.metric)
    /\ IF rule.direction = "above"
       THEN /\ prev_event.data[rule.metric].num < rule.boundary
            /\ rule.boundary <= new_event.data[rule.metric].num
       ELSE /\ prev_event.data[rule.metric].num > rule.boundary
            /\ rule.boundary >= new_event.data[rule.metric].num

ThresholdTestMatches(prev_event, new_event) ==
    \E rule \in RuleTable :
        /\ DirectionAwareCrossed(rule, prev_event, new_event)
        /\ is_known_consequence(new_event, rule.metric, rule.label)

SignificantMetrics(prev_event, new_event) ==
    { m \in (DOMAIN prev_event.data) \cap (DOMAIN new_event.data) :
        /\ NumericIn(prev_event, m) /\ NumericIn(new_event, m)
        /\ prev_event.data[m].num # 0
        /\ 10 * Abs(new_event.data[m].num - prev_event.data[m].num)
             > Abs(prev_event.data[m].num) }

CorrelationTestMatches(prev_event, new_event) ==
    Cardinality(SignificantMetrics(prev_event, new_event)) >= 2

DirectTestMatches(prev_event, new_event) ==
    /\ direct_causations(prev_event.component, new_event.component) # ""
    /\ 0 < new_event.timestamp - prev_event.timestamp
    /\ new_event.timestamp - prev_event.timestamp < 100

FirstMatch(prev_event, new_event) ==
    IF ~(prev_event.timestamp < new_event.timestamp) THEN "none"
    ELSE IF ThresholdTestMatches(prev_event, new_event) THEN "threshold"
    ELSE IF CorrelationTestMatches(prev_event, new_event) THEN "correlation"
    ELSE IF DirectTestMatches(prev_event, new_event) THEN "direct"
    ELSE "none"

EdgeOfType(g, p, type, strength) ==
    /\ p \in DOMAIN g
    /\ g[p].causation_type = type
    /\ g[p].strength = strength

-----------------------------------------------------------------------------
(* Properties of the store and the graph, under Spec *)

\* C1: an edge, once created, stays in the graph with the link type, strength,
\* explanation and metrics of the first link created for its ordered pair; a
\* later link proposed for the same pair is dropped.
C1_FirstLinkKept ==
    [][\A p \in DOMAIN causation_graph :
          /\ p \in DOMAIN causation_graph'
          /\ causation_graph'[p] = causation_graph[p]]_vars

\* An event was inserted again under its id and the pass proposed, for a pair
\* that already had an edge, a link of another type.
C1_Witness ==
    \E p \in DOMAIN last.graph_before :
        /\ p[2] = last.event.event_id
        /\ p[1] \in last.examined
        /\ events[p[1]].timestamp < last.event.timestamp
        /\ proposed_link(events[p[1]], last.event).link # None
        /\ proposed_link(events[p[1]], last.event).link.causation_type
               # causation_graph[p].causation_type

\* C2: every event ever passed to add_event is found again under its id, equal
\* in every field, in the events map and in get_event_summary(id)['event'],
\* whether or not it has causal links.
C2_LookupRoundTrip ==
    \A e \in passed :
        /\ e.event_id \in DOMAIN events
        /\ events[e.event_id] = e
        /\ get_event_summary(e.event_id).status = "ok"
        /\ get_event_summary(e.event_id).event = e

\* C5: add_event returns without raising, with the event stored and indexed
\* and every candidate predecessor examined by the detection pass.
C5_AddEventCompletes ==
    calls > 0 =>
        /\ ~last.raised
        /\ last.event.event_id \in DOMAIN events
        /\ events[last.event.event_id] = last.event
        /\ last.examined = (DOMAIN events) \ {last.event.event_id}

\* C10: in one detection pass every candidate prev gives the new event exactly
\* the edge of the first test that matches (threshold, correlation, direct),
\* no edge if none matches, independently of the other candidates.
C10_OneEdgePerCandidate ==
    calls > 0 =>
        \A id \in (DOMAIN last.before) \ {last.event.event_id} :
            LET p == <<id, last.event.event_id>>
                m == FirstMatch(last.before[id], last.event)
            IN
            IF m # "none"
            THEN /\ p \in DOMAIN causation_graph
                 /\ p \notin DOMAIN last.graph_before => causation_graph[p].causation_type = m
            ELSE p \in DOMAIN causation_graph => p \in DOMAIN last.graph_before

-----------------------------------------------------------------------------
(* Properties of the three tests, under SpecPair: prev has id 1, new id 2 *)

\* C6: every boundary test made is direction-aware: an "above" boundary counts
\* as crossed iff prev < boundary <= new, a "below" boundary (modularity 0.3)
\* iff prev > boundary >= new.
C6_DirectionAwareCrossing ==
    stage = 2 =>
        \A rule \in RuleTable :
            <<1, rule.metric, rule.label>> \in last.tested =>
                (<<1, rule.metric, rule.label>> \in last.crossed
                    <=> DirectionAwareCrossed(rule, pairPrev, pairNew))

\* C7: for prev earlier than new, a threshold link of strength 0.9 is created
\* exactly when a configured metric crosses one of its boundaries and the new
\* event's type or a data value contains a keyword of that (metric, label).
C7_ThresholdLinkIffKeyword ==
    (stage = 2 /\ pairPrev.timestamp < pairNew.timestamp) =>
        (ThresholdTestMatches(pairPrev, pairNew)
            <=> EdgeOfType(causation_graph, <<1, 2>>, "threshold", 90))

\* C8: for prev earlier than new and no threshold link created, a correlation
\* link of strength 0.7 is created iff at least two common numeric metrics
\* with prev value not 0 changed by strictly more than 10%.
C8_CorrelationLinkIffTwoSignificant ==
    (/\ stage = 2
     /\ pairPrev.timestamp < pairNew.timestamp
     /\ ~EdgeOfType(causation_graph, <<1, 2>>, "threshold", 90)) =>
        (CorrelationTestMatches(pairPrev, pairNew)
            <=> EdgeOfType(causation_graph, <<1, 2>>, "correlation", 70))

\* C9: for a pair that matches neither the threshold nor the correlation test,
\* a direct link of strength 0.8 is created iff the component pair is in the
\* direct-mapping table and 0 < new.timestamp - prev.timestamp < 1.0 s.
C9_DirectLinkIffMappedWithinSecond ==
    (/\ stage = 2
     /\ ~ThresholdTestMatches(pairPrev, pairNew)
     /\ ~CorrelationTestMatches(pairPrev, pairNew)) =>
        (DirectTestMatches(pairPrev, pairNew)
            <=> EdgeOfType(causation_graph, <<1, 2>>, "direct", 80))

-----------------------------------------------------------------------------
(* Properties of concurrent callers, under SpecConc *)

AllReturned == \A t \in Threads : pc[t] \in {"done", "raised"}

IndexPositions(index) ==
    UNION { { <<k, i>> : i \in 1..Len(index[k]) } : k \in DOMAIN index }

Occurrences(index, id) ==
    Cardinality({ x \in IndexPositions(index) : index[x[1]][x[2]] = id })

\* C3: once the N callers, each inserting an event of its own id, have all
\* returned, the store holds exactly N events and each index holds N ids in
\* total, every inserted id exactly once.
C3_IndicesExact ==
    AllReturned =>
        /\ Cardinality(DOMAIN events) = NumThreads
        /\ Cardinality(IndexPositions(events_by_component)) = NumThreads
        /\ Cardinality(IndexPositions(events_by_type)) = NumThreads
        /\ \A t \in Threads :
              /\ Occurrences(events_by_component, t) = 1
              /\ Occurrences(events_by_type, t) = 1

\* All N callers have returned and their events went to several index lists.
C3_Witness ==
    /\ AllReturned
    /\ Cardinality(DOMAIN events) = NumThreads
    /\ Cardinality(DOMAIN events_by_component) >= 2

\* C4: every graph snapshot is the store after a whole number of completed
\* inserts: each event in it belongs to an insert that ran to its end, and both
\* endpoints of every link in it are among its nodes.
C4_SnapshotOfWholeInserts ==
    snapshot.taken =>
        /\ \A id \in DOMAIN snapshot.events : id \in completed
        /\ \A p \in DOMAIN snapshot.edges :
              p[1] \in DOMAIN snapshot.events /\ p[2] \in DOMAIN snapshot.events

-----------------------------------------------------------------------------
(* Properties of the queries, under SpecGraph and Spec *)

Directions == {"backwards", "forwards"}

TrailOk(r, max_depth, n_edges) ==
    /\ r.calls <= 1 + n_edges
    /\ r.status = "ok" =>
          /\ \A i, j \in 1..Len(r.trail) :
                r.trail[i].event.event_id = r.trail[j].event.event_id => i = j
          /\ \A i \in 1..Len(r.trail) : r.trail[i].depth \in 0..max_depth

\* C11: for every stored start event and every max_depth >= 0, on graphs with
\* cycles too, explore_backwards and explore_forwards end after at most one
\* call per edge plus one, and a returned trail lists each event at most once
\* with a depth between 0 and max_depth.
C11_ExploreTerminatesOnce ==
    \A id \in DOMAIN events, d \in 0..MaxDepth, dir \in Directions :
        TrailOk(explore(dir, events, causation_graph, edge_keys, id, d), d, Len(edge_keys))

\* Two events cause each other and the trail from one of them holds both.
C11_Witness ==
    \E a, b \in DOMAIN events :
        /\ a # b
        /\ <<a, b>> \in DOMAIN causation_graph
        /\ <<b, a>> \in DOMAIN causation_graph
        /\ explore_backwards(a, MaxDepth).status = "ok"
        /\ Len(explore_backwards(a, MaxDepth).trail) = 2
        /\ Len(explore_forwards(a, MaxDepth).trail) = 2

\* there is a directed path of n edges or fewer from a to b
RECURSIVE Reaches(_, _, _, _)
Reaches(g, a, b, n) ==
    \/ a = b
    \/ /\ n > 0
       /\ \E c \in successors(g, a) : Reaches(g, c, b, n - 1)

IsPath(g, p, a, b) ==
    /\ Len(p) >= 1
    /\ p[1] = a
    /\ p[Len(p)] = b
    /\ \A i \in 1..(Len(p) - 1) : <<p[i], p[i + 1]>> \in DOMAIN g

FoundOk(g, r, a, b) ==
    /\ r.status \in {"None", "path"}
    /\ r.status = "None" <=> ~(a \in Nodes(g) /\ Reaches(g, a, b, NumIds))
    /\ r.status = "path" =>
          /\ r.paths # {}
          /\ \A p \in r.paths :
                /\ IsPath(g, p, a, b)
                /\ Len(p) > 1 => ~Reaches(g, a, b, Len(p) - 2)

\* C12: for any two ids, stored with or without links or unknown, find_path
\* raises nothing, returns None when no directed path leads from a to b and
\* otherwise a directed path from a to b with the fewest edges.
C12_FindPathShortestOrNone ==
    \A a, b \in Ids : FoundOk(causation_graph, find_path(a, b), a, b)

\* C13: explore_backwards on a stored event without predecessor edges (also
\* one without any edge) returns, without raising, only that event at depth
\* 0 marked as a root cause; explore_forwards on one without successor edges
\* returns only that event at depth 0 marked as a final effect.
LeafTrail(r, event) ==
    /\ r.status = "ok"
    /\ Len(r.trail) = 1
    /\ r.trail[1].event = to_dict(event)
    /\ r.trail[1].depth = 0
    /\ r.trail[1].end

C13_LeafIsRootOrFinal ==
    \A id \in DOMAIN events, d \in 0..MaxDepth :
        /\ predecessors(causation_graph, id) = {} =>
              LeafTrail(explore_backwards(id, d), events[id])
        /\ successors(causation_graph, id) = {} =>
              LeafTrail(explore_forwards(id, d), events[id])

-----------------------------------------------------------------------------
(* Properties of the Snapshot Adapter, under SpecAdapter *)

\* the step is a run that read a document
ReadDoc == load'.n = load.n + 1 /\ load'.frame_count # -1

AdapterKept == UNCHANGED <<StoreVars, last_loaded_frame, last_explorer_phase, last_vp>>

\* C14: a non-forced run on a document whose frame_count is at most
\* last_loaded_frame changes nothing: no event, no edge, no metric sample,
\* and the cursor, the remembered phase and the remembered pressure stay.
C14_StaleRunChangesNothing ==
    [][(ReadDoc /\ ~load'.force /\ load'.frame_count <= last_loaded_frame)
          => AdapterKept]_vars

\* A document with a network block was ingested and then read again by a
\* non-forced run, which returned at the cursor test.
C14_Witness ==
    /\ load.n = 2
    /\ ~load.force
    /\ load.outcome = "stale"
    /\ load.frame_count = last_loaded_frame
    /\ HasBlock(load.doc, "network")
    /\ \E id \in DOMAIN events : events[id].data["frame_count"] = Frame(load.doc)

BlockNames == {"network", "explorer", "djinn_kernel"}

component_of(name) == IF name = "network" THEN "reality_sim" ELSE name

\* the state_change events of a block's component that the step stored
StateChanges(before, after, name) ==
    { id \in DOMAIN after :
        /\ id \notin DOMAIN before
        /\ after[id].component = component_of(name)
        /\ after[id].event_type = "state_change" }

Carries(event, doc, name) ==
    /\ \A k \in DOMAIN doc.data[name] :
          k \in DOMAIN event.data /\ event.data[k] = doc.data[name][k]
    /\ "frame_count" \in DOMAIN event.data
    /\ event.data["frame_count"] = Frame(doc)

\* C15: every run that reads a well-formed document with frame_count above
\* last_loaded_frame, whatever is stored already, sets the cursor to that
\* frame_count and adds exactly one state_change event per non-empty
\* recognized block, carrying the block's fields and the frame number.
C15_NewFrameOneEventPerBlock ==
    [][(ReadDoc /\ load'.frame_count > last_loaded_frame) =>
          /\ last_loaded_frame' = load'.frame_count
          /\ \A name \in BlockNames :
                IF HasBlock(load'.doc, name)
                THEN /\ Cardinality(StateChanges(events, events', name)) = 1
                     /\ \A id \in StateChanges(events, events', name) :
                           Carries(events'[id], load'.doc, name)
                ELSE StateChanges(events, events', name) = {}]_vars

\* the step is a run that found no parsable document
NoParse == load'.n = load.n + 1 /\ load'.frame_count = -1 /\ load'.outcome # "nodata"

\* C16: when the document is missing, empty, undersized or unparsable at
\* every attempt, the run makes at most 5 parse attempts, returns without
\* raising and leaves store, graph, cursor, phase and pressure unchanged.
C16_BadDocumentIsSilent ==
    [][NoParse => /\ load'.attempts <= MaxRetries
                  /\ ~load'.raised
                  /\ AdapterKept]_vars

\* C20: two distinct events never share an id: every event that a run of
\* the adapter creates, back to back ones included, takes a map slot of its
\* own, so the map grows by one entry per event created and no entry stored
\* before is replaced.
C20_DistinctIds ==
    [][load'.n = load.n + 1 =>
          /\ Len(events_keys') = Len(events_keys) + load'.made
          /\ \A id \in DOMAIN events : events'[id] = events[id]]_vars

-----------------------------------------------------------------------------
(* Properties of the replays, under SpecReplay *)

WellFormed(source, record) ==
    IF source = "ledger" THEN record.present /\ record.content # PyNone
    ELSE Len(record.parts) >= 4

\* the record at position i was turned into an event that is in the store
IngestedAt(r, evs, i) ==
    /\ i <= Len(r.trace)
    /\ r.trace[i].event_id # 0
    /\ r.trace[i].event_id \in DOMAIN evs

FailedAt(r, j) == j <= Len(r.trace) /\ r.trace[j].raised

\* C17: when one record of a source fails to be turned into an event (a
\* ledger record, a log line), only that record is skipped: every later
\* well-formed record of the same source is still ingested as an event.
C17_OnlyFailingRecordSkipped ==
    [][replay'.n = replay.n + 1 =>
          \A i \in 1..Len(replay'.records), j \in 1..Len(replay'.records) :
              (j < i /\ FailedAt(replay', j)
                     /\ WellFormed(replay'.source, replay'.records[i]))
                 => IngestedAt(replay', events', i)]_vars

-----------------------------------------------------------------------------
(* Properties of the metric history, under SpecHistory *)

HistoryBounded ==
    \A m \in DOMAIN metric_history : Len(metric_history[m]) <= HistoryMaxLen

\* what an append makes of a history: the oldest sample leaves a full one,
\* the others keep their order, the new sample comes last
Fifo(old, new) ==
    /\ Len(new) >= 1
    /\ SubSeq(new, 1, Len(new) - 1) = IF Len(old) = HistoryMaxLen THEN Tail(old) ELSE old
    /\ new[Len(new)].event_id = last'.event.event_id
    /\ new[Len(new)].timestamp = last'.event.timestamp

\* C18: the history of every metric never holds more than 1000 samples;
\* an append to a full history evicts the oldest sample and the remaining
\* samples keep their insertion order.
C18_HistoryCappedFifo ==
    /\ []HistoryBounded
    /\ [][\A m \in DOMAIN metric_history' :
             \/ m \in DOMAIN metric_history /\ metric_history'[m] = metric_history[m]
             \/ Fifo(IF m \in DOMAIN metric_history THEN metric_history[m] ELSE <<>>,
                     metric_history'[m])]_vars

\* A full history took two more samples: the two oldest are gone.
C18_Witness ==
    /\ "a" \in DOMAIN metric_history
    /\ Len(metric_history["a"]) = HistoryMaxLen
    /\ metric_history["a"][1].value = 3
    /\ metric_history["a"][HistoryMaxLen].value = HistoryMaxLen + 2

-----------------------------------------------------------------------------
(* Properties of the statistics export, under SpecStats *)

\* the inserts of the first i stored events have all left add_event
WholeInserts(i) == \A j \in 1..i : pc[events_keys[j]] \in {"done", "raised"}

StoredBy(ids, by) == { k \in DOMAIN by : \E j \in 1..Len(by[k]) : by[k][j] \in ids }

\* The store as it was when the first i stored events were in it.  Each
\* caller inserts one event under an id of its own and an insert adds edges
\* into its own event only: that store is what is left of the present one
\* when the later events and what they brought are taken away.
StoreOfFirst(ids) ==
    [events |-> [id \in ids |-> events[id]],
     keys |-> SelectSeq(events_keys, LAMBDA id : id \in ids),
     by_component |-> [c \in StoredBy(ids, events_by_component) |->
                          SelectSeq(events_by_component[c], LAMBDA id : id \in ids)],
     by_type |-> [c \in StoredBy(ids, events_by_type) |->
                     SelectSeq(events_by_type[c], LAMBDA id : id \in ids)],
     history |-> [m \in { k \in DOMAIN metric_history :
                            \E j \in 1..Len(metric_history[k]) :
                                metric_history[k][j].event_id \in ids } |->
                     SelectSeq(metric_history[m], LAMBDA x : x.event_id \in ids)],
     graph |-> [p \in { q \in DOMAIN causation_graph : q[2] \in ids } |-> causation_graph[p]],
     order |-> SelectSeq(edge_keys, LAMBDA p : p[2] \in ids),
     raised |-> FALSE]

Returned == stats.at = Len(StatsKeys) + 2

SameCounts(out, of) ==
    /\ out["total_events"] = of["total_events"]
    /\ out["total_links"] = of["total_links"]
    /\ out["strongest_links"] = of["strongest_links"]

\* C19: get_causation_stats running next to add_event calls never fails,
\* and the event count, the edge count and the strongest links it returns
\* are those of one store state that existed between two complete inserts.
C19_StatsOfOneState ==
    Returned =>
        /\ ~stats.raised
        /\ \E i \in 0..Len(events_keys) :
              /\ WholeInserts(i)
              /\ SameCounts(stats.out, get_causation_stats(
                                 StoreOfFirst({ events_keys[j] : j \in 1..i })))

-----------------------------------------------------------------------------
(* Properties of the edges, under Spec *)

LinkStrength(type) ==
    IF type = "threshold" THEN ThresholdStrength
    ELSE IF type = "correlation" THEN CorrelationStrength
    ELSE DirectStrength

DistinctInserts == calls = Cardinality(DOMAIN events)

EarlierStored(p) == events[p[1]].timestamp < events[p[2]].timestamp

\* C22: for every edge (u, v) the event now stored under u has a timestamp
\* strictly below that of the event now stored under v; events of equal
\* timestamps are never linked.
C22_EdgesFollowTimestamps ==
    \A p \in DOMAIN causation_graph : EarlierStored(p)

\* C27: after any sequence of add_event calls the graph has no self-loop and
\* no directed cycle.
C27_GraphAcyclic ==
    \A a \in Nodes(causation_graph) :
        /\ <<a, a>> \notin DOMAIN causation_graph
        /\ ~\E b \in successors(causation_graph, a) :
                Reaches(causation_graph, b, a, Cardinality(Nodes(causation_graph)) - 1)

\* the edges the step adds
NewEdges == (DOMAIN causation_graph') \ (DOMAIN causation_graph)

EdgesOfInsert ==
    \A p \in NewEdges :
        /\ p[2] = last'.event.event_id
        /\ p[1] # p[2]
        /\ p[1] \in DOMAIN events
        /\ calls' = calls + 1

\* C28: every edge is created during the insertion of its target event,
\* from a source inserted earlier: an add_event call adds only edges that
\* point to the event it inserts, so an event inserted out of timestamp
\* order gains no edge to the later events.
C28_EdgesPointToInserted == [][EdgesOfInsert]_vars

\* an event inserted below the timestamp of a stored event, with an edge gained
C28_Witness ==
    /\ \E id \in DOMAIN last.before :
          /\ id # last.event.event_id
          /\ last.before[id].timestamp > last.event.timestamp
    /\ DOMAIN causation_graph # DOMAIN last.graph_before

-----------------------------------------------------------------------------
(* Properties of the Snapshot Adapter's cursor and pressure, under SpecAdapter *)

\* the run passed the cursor test and went on to the blocks of the document
PassedCursorTest == ReadDoc /\ load'.outcome \in {"ingested", "caught"}

Greater(a, b) == IF a >= b THEN a ELSE b

CursorFollowsGreatest ==
    /\ last_loaded_frame' >= last_loaded_frame
    /\ last_loaded_frame' = IF PassedCursorTest
                            THEN Greater(last_loaded_frame, load'.frame_count)
                            ELSE last_loaded_frame

\* C30: last_loaded_frame starts at -1 and never decreases over any sequence
\* of runs, forced or not; after every run it is the greatest frame_count
\* among the documents ingested so far.
C30_CursorMonotonic ==
    /\ (load.n = 0 => last_loaded_frame = -1)
    /\ [][CursorFollowsGreatest]_vars

\* the boundaries of the pressure, in hundredths, by the name an event gives
Boundaries == [b \in {"VP0", "VP1", "VP2", "VP3"} |->
                 CASE b = "VP0" -> 25 [] b = "VP1" -> 50 [] b = "VP2" -> 75 [] b = "VP3" -> 99]

\* one of the two values is below the boundary, the other at or above it
DifferentSides(prev_vp, vp, boundary) == (prev_vp < boundary) # (vp < boundary)

PressureOf(doc) == Get(doc.data["djinn_kernel"], "violation_pressure", PyNum(0))

\* the threshold_crossed events the step stored
Crossings ==
    { id \in DOMAIN events' :
        /\ events'[id].event_type = "threshold_crossed"
        /\ events'[id].component = "djinn_kernel"
        /\ (id \in DOMAIN events => events[id] # events'[id]) }

PressureIngested == PassedCursorTest /\ HasBlock(load'.doc, "djinn_kernel")

CrossingsAsSides ==
    IF last_vp = PyNone THEN Crossings = {}
    ELSE /\ \A b \in DOMAIN Boundaries :
               DifferentSides(last_vp.num, PressureOf(load'.doc).num, Boundaries[b])
                   <=> \E id \in Crossings : events'[id].data["threshold"] = PyStr(b)
         /\ \A id, other \in Crossings :
               events'[id].data["threshold"] = events'[other].data["threshold"] => id = other

\* C24: on every ingestion of a document with the pressure block after the
\* first such ingestion, a threshold_crossed event naming boundary b (0.25,
\* 0.50, 0.75, 0.99) is stored if and only if the previous pressure and the
\* current one lie on different sides of b, one event per such boundary;
\* the first such ingestion stores none.
C24_CrossingIffSidesDiffer == [][PressureIngested => CrossingsAsSides]_vars

-----------------------------------------------------------------------------
(* Completeness of the explorations, under SpecTrail *)

\* Four callers' events that link into a chain with a shortcut: a
\* djinn_kernel sample, a breath event with changed metrics half a second on,
\* a reality_sim event and a djinn_kernel event without metrics after it.
TrailCalls == 4

TrailSpace ==
    { Event(1, 0, "djinn_kernel", "state_change", Data2("a", PyNum(1000), "b", PyNum(10000))),
      Event(2, 50, "breath", "state_change", Data2("a", PyNum(1300), "b", PyNum(7000))),
      Event(3, 90, "reality_sim", "state_change", <<>>),
      Event(4, 120, "djinn_kernel", "state_change", <<>>) }

AddTrailEvent ==
    /\ calls < TrailCalls
    /\ \E event \in TrailSpace : add_event(event)
    /\ UNCHANGED <<stage, pairPrev, pairNew, AdapterVars, stats, runs, pc, arg, snapshot, completed>>

InitTrail == Init

NextTrail == AddTrailEvent

SpecTrail == InitTrail /\ [][NextTrail]_vars

\* the events within max_depth edges of event_id, against or along the edges
Within(dir, g, event_id, max_depth) ==
    { b \in Nodes(g) \cup {event_id} :
        IF dir = "backwards" THEN Reaches(g, b, event_id, max_depth)
                             ELSE Reaches(g, event_id, b, max_depth) }

TrailIds(r) == { r.trail[i].event.event_id : i \in 1..Len(r.trail) }

ExploredAll(dir, event_id, max_depth, r) ==
    /\ r.status = "ok"
    /\ TrailIds(r) = Within(dir, causation_graph, event_id, max_depth)

\* C25: explore_backwards(id, max_depth) returns every event from which the
\* queried event can be reached along at most max_depth edges, and
\* explore_forwards every event that can be reached from it so.
C25_ExploreReturnsAllWithinDepth ==
    \A id \in DOMAIN events, d \in 0..MaxDepth, dir \in Directions :
        ExploredAll(dir, id, d, explore(dir, events, causation_graph, edge_keys, id, d))

-----------------------------------------------------------------------------
(* A store of about a hundred events.  A caller has passed Stock(k), an     *)
(* akashic_ledger record without metrics at timestamp 10 * k, to add_event  *)
(* for k = 1..n: n events are stored, none linked, and the last pass went   *)
(* over the events before it.                                              *)

RecentSlack == 1
RecentAppends == 2

Stock(k) == Event(k, 10 * k, "akashic_ledger", "record", <<>>)

AfterStock(n) ==
    /\ events = [k \in 1..n |-> Stock(k)]
    /\ events_keys = [k \in 1..n |-> k]
    /\ events_by_component = [c \in {"akashic_ledger"} |-> [k \in 1..n |-> k]]
    /\ events_by_type = [c \in {"record"} |-> [k \in 1..n |-> k]]
    /\ metric_history = <<>>
    /\ causation_graph = <<>>
    /\ edge_keys = <<>>
    /\ graph_lock = 0
    /\ calls = n
    /\ passed = { Stock(k) : k \in 1..n }
    /\ last = [event |-> Stock(n), raised |-> FALSE,
               examined |-> { k \in 1..(n - 1) : k > n - RecentWindow },
               tested |-> {}, crossed |-> {},
               before |-> [k \in 1..(n - 1) |-> Stock(k)],
               graph_before |-> <<>>]

\* the events of the next call: under a new id or under the oldest one, at
\* a timestamp above every stored one or below every stored one
LateOrEarly(k) ==
    { Event(id, timestamp, component, "state_change", <<>>) :
        id \in {k, 1}, timestamp \in {10 * k, 5},
        component \in {"reality_sim", "djinn_kernel"} }

AddToStock ==
    /\ calls < RecentWindow + RecentAppends
    /\ \E event \in LateOrEarly(calls + 1) : add_event(event)
    /\ UNCHANGED <<stage, pairPrev, pairNew, AdapterVars, stats, runs, pc, arg, snapshot, completed>>

InitRecent ==
    /\ \E n \in (RecentWindow - RecentSlack)..RecentWindow : AfterStock(n)
    /\ NoThreads
    /\ NoPair
    /\ NoAdapter

NextRecent == AddToStock

SpecRecent == InitRecent /\ [][NextRecent]_vars

\* the stored events other than the inserted one
Others == (DOMAIN events) \ {last.event.event_id}

\* those of them with fewer than a hundred others above their timestamp
LatestOthers ==
    { id \in Others :
        Cardinality({ j \in Others : events[j].timestamp > events[id].timestamp })
            < RecentWindow }

\* C23: a detection pass examines as candidates the 100 stored events with the
\* greatest timestamps, not counting the new event itself: with 100 or more
\* other events stored it examines 100 candidates, also when the new event
\* has the greatest timestamp.
C23_HundredCandidates ==
    (calls > 0 /\ ~last.raised) =>
        /\ last.examined = LatestOthers
        /\ Cardinality(Others) >= RecentWindow => Cardinality(last.examined) = RecentWindow

-----------------------------------------------------------------------------
(* Runs side by side, under SpecRace *)

RunsOver == \A c \in Runners : runs.at[c] \in {"stale", "ingested"}

RECURSIVE MadeBy(_)
MadeBy(n) == IF n = 0 THEN 0 ELSE MadeBy(n - 1) + runs.made[n]

\* one run on the document alone, from the adapter as constructed
AloneOn(doc) ==
    ingest([S |-> [events |-> <<>>, keys |-> <<>>, by_component |-> <<>>,
                   by_type |-> <<>>, history |-> <<>>, graph |-> <<>>, order |-> <<>>,
                   raised |-> FALSE],
            cursor |-> -1, phase |-> PyNone, vp |-> PyNone, clock |-> 1, made |-> 0], doc)

\* C26: when two callers run the Snapshot Adapter at once, non-forced, on the
\* same document with frame_count above the cursor, then in every
\* interleaving the events of the frame are emitted once in total, and the
\* remembered phase and pressure end as after a single ingestion.
C26_ConcurrentRunsIngestOnce ==
    RunsOver =>
        /\ MadeBy(NumRunners) = AloneOn(runs.doc).made
        /\ Len(events_keys) = AloneOn(runs.doc).made
        /\ last_explorer_phase = AloneOn(runs.doc).phase
        /\ last_vp = AloneOn(runs.doc).vp

-----------------------------------------------------------------------------
(* The lock, under SpecFair: a few callers of add_event and the snapshot    *)
(* reader with a fair scheduler.  A caller inside the with block goes on    *)
(* running, and a caller blocked at the lock gets it when it is free again  *)
(* and again.                                                               *)

\* two callers of add_event
FairThreads == {1, 2}

FairCallers == FairThreads \cup {Reader}

\* a modularity sample or an event without metrics, at one timestamp per
\* caller: the order of the inserts decides whether a detection pass raises
FairSpace(t) ==
    { Event(t, TimeStep * ((t - 1) % 2), "djinn_kernel", "Network_Collapse", data) :
        data \in {Data1("modularity", PyNum(40)), <<>>} }

FairAcquire(t) == \E event \in FairSpace(t) : Entered(t, event)

InLock(t) ==
    StoreStep(t) \/ IndexComponent(t) \/ IndexType(t) \/ UpdateMetrics(t) \/ Detect(t)

NextFair ==
    \/ \E t \in FairThreads : FairAcquire(t)
    \/ \E t \in FairThreads : InLock(t)
    \/ SnapAcquire
    \/ SnapCopy

\* whoever can run does: the holder of the lock goes on, the reader comes
\* back, and the lock, free again and again, goes to a waiting add_event
FairScheduling ==
    /\ WF_vars((\E t \in FairThreads : InLock(t)) \/ SnapCopy \/ SnapAcquire)
    /\ SF_vars(\E t \in FairThreads : FairAcquire(t))

SpecFair == InitConc /\ [][NextFair]_vars /\ FairScheduling

Inside(t) == pc[t] \notin {"idle", "done", "raised"}

\* the lock is held by the caller inside the with block, and by nobody when
\* no caller is inside
LockFollowsCallers ==
    /\ \A t \in FairCallers : Inside(t) <=> graph_lock = t
    /\ (\A t \in FairCallers : ~Inside(t)) <=> graph_lock = 0

====
